---------------------------- MODULE Spec2Model ----------------------------
(***************************************************************************)
(* IPO valuation-and-pricing engines of the repository.                    *)
(*                                                                         *)
(* Three copies of calculateIPOPricing are modelled, each from its file:   *)
(*   src/unnamed/part_001                      (suffix _p001)              *)
(*   src/unnamed/part_000                      (suffix _p000)              *)
(*   src/server/services/ipoPricingService.ts  (suffix _svc)               *)
(*                                                                         *)
(* JavaScript numbers are modelled as exact rationals [n |-> numerator,    *)
(* d |-> denominator] in lowest terms with d > 0, extended with the IEEE   *)
(* special values +Infinity, -Infinity and NaN (d = 0) and with the value  *)
(* undefined (d = -1).  Rounding error of binary floating point is not     *)
(* modelled; division by zero, NaN propagation and comparisons with NaN    *)
(* follow IEEE 754 (the sign of zero is not tracked).                      *)
(***************************************************************************)
EXTENDS Integers, Sequences, FiniteSets, TLC

VARIABLES
    engine,     \* which copy of calculateIPOPricing ran last ("none" at start)
    input,      \* the assumptions object of the last invocation
    result,     \* what the last invocation returned (or that it threw)
    prevResult, \* result of the invocation before, when it had the same input
    year        \* the calendar year new Date().getFullYear() returns

vars == <<engine, input, result, prevResult, year>>

-----------------------------------------------------------------------------
(* Numbers *)

RECURSIVE Gcd(_, _)
Gcd(a, b) == IF b = 0 THEN a ELSE Gcd(b, a % b)

Abs(i) == IF i < 0 THEN -i ELSE i

\* the rational n/d (d # 0) in lowest terms
Q(n, d) ==
    LET g == Gcd(Abs(n), Abs(d))
        s == IF d < 0 THEN -1 ELSE 1
    IN  [n |-> (s * n) \div g, d |-> (s * d) \div g]

I(i) == [n |-> i, d |-> 1]

NaN == [n |-> 0, d |-> 0]
PosInf == [n |-> 1, d |-> 0]
NegInf == [n |-> -1, d |-> 0]
Undefined == [n |-> 0, d |-> -1]
Zero == I(0)
One == I(1)

IsUndefined(x) == x.d = -1
\* ToNumber: undefined becomes NaN
Num(x) == IF IsUndefined(x) THEN NaN ELSE x
IsNaN(x) == Num(x) = NaN
IsInf(x) == x.d = 0 /\ x.n # 0
IsFinite(x) == x.d > 0
Sign(x) == IF x.n > 0 THEN 1 ELSE IF x.n < 0 THEN -1 ELSE 0
InfOf(s) == IF s > 0 THEN PosInf ELSE IF s < 0 THEN NegInf ELSE NaN

Neg(x) == LET a == Num(x) IN [n |-> -a.n, d |-> a.d]

Add(x, y) ==
    LET a == Num(x)
        b == Num(y)
    IN  IF a = NaN \/ b = NaN THEN NaN
        ELSE IF IsInf(a) THEN (IF IsInf(b) /\ b # a THEN NaN ELSE a)
        ELSE IF IsInf(b) THEN b
        ELSE LET g == Gcd(a.d, b.d)
             IN  Q(a.n * (b.d \div g) + b.n * (a.d \div g), (a.d \div g) * b.d)

Sub(x, y) == Add(x, Neg(y))

Mul(x, y) ==
    LET a == Num(x)
        b == Num(y)
    IN  IF a = NaN \/ b = NaN THEN NaN
        ELSE IF IsInf(a) \/ IsInf(b) THEN InfOf(Sign(a) * Sign(b))
        ELSE LET g1 == Gcd(Abs(a.n), b.d)
                 g2 == Gcd(Abs(b.n), a.d)
             IN  Q((a.n \div g1) * (b.n \div g2), (a.d \div g2) * (b.d \div g1))

Div(x, y) ==
    LET a == Num(x)
        b == Num(y)
    IN  IF a = NaN \/ b = NaN THEN NaN
        ELSE IF IsInf(a) THEN (IF IsInf(b) THEN NaN
                               ELSE InfOf(Sign(a) * (IF Sign(b) < 0 THEN -1 ELSE 1)))
        ELSE IF IsInf(b) THEN Zero
        ELSE IF b.n = 0 THEN InfOf(Sign(a))
        ELSE Mul(a, Q(b.d, b.n))

\* an/ad < bn/bd for ad, bd > 0, by continued fractions (no cross products)
RECURSIVE LtFrac(_, _, _, _)
LtFrac(an, ad, bn, bd) ==
    LET qa == an \div ad
        qb == bn \div bd
        ra == an - qa * ad
        rb == bn - qb * bd
    IN  IF qa # qb THEN qa < qb
        ELSE IF ra = 0 THEN rb > 0
        ELSE IF rb = 0 THEN FALSE
        ELSE LtFrac(bd, rb, ad, ra)

\* x < y; false when either side is NaN or undefined
Lt(x, y) ==
    LET a == Num(x)
        b == Num(y)
    IN  /\ a # NaN
        /\ b # NaN
        /\ a # b
        /\ IF IsInf(a) THEN a = NegInf
           ELSE IF IsInf(b) THEN b = PosInf
           ELSE LtFrac(a.n, a.d, b.n, b.d)

Gt(x, y) == Lt(y, x)
Le(x, y) == Lt(x, y) \/ (Num(x) # NaN /\ Num(x) = Num(y))
Ge(x, y) == Le(y, x)

\* JavaScript truthiness of a number-or-undefined
Truthy(x) == ~IsUndefined(x) /\ x # NaN /\ x # Zero
\* x || y and x ?? y
OrElse(x, y) == IF Truthy(x) THEN x ELSE y
Coalesce(x, y) == IF IsUndefined(x) THEN y ELSE x
\* a destructuring default: { x = dflt }
Default(x, dflt) == IF IsUndefined(x) THEN dflt ELSE x

MathMax(x, y) ==
    IF IsNaN(x) \/ IsNaN(y) THEN NaN ELSE IF Lt(Num(x), Num(y)) THEN Num(y) ELSE Num(x)
MathMin(x, y) ==
    IF IsNaN(x) \/ IsNaN(y) THEN NaN ELSE IF Lt(Num(y), Num(x)) THEN Num(y) ELSE Num(x)
MathAbs(x) == LET a == Num(x) IN [n |-> Abs(a.n), d |-> a.d]

Hundred == I(100)

-----------------------------------------------------------------------------
(* Sequences *)

\* s.reduce((sum, x) => sum + x, 0)
RECURSIVE SumSeq(_)
SumSeq(s) ==
    IF s = <<>> THEN Zero ELSE Add(SumSeq(SubSeq(s, 1, Len(s) - 1)), s[Len(s)])

\* Math.pow(x, k) for an integer k
RECURSIVE Pow(_, _)
Pow(x, k) ==
    IF k = 0 THEN One
    ELSE IF k < 0 THEN Div(One, Pow(x, -k))
    ELSE Mul(x, Pow(x, k - 1))

\* [...s].sort((a, b) => a - b) of finite numbers
RECURSIVE InsertAsc(_, _)
InsertAsc(sorted, x) ==
    IF sorted = <<>> THEN <<x>>
    ELSE IF Lt(x, Head(sorted)) THEN <<x>> \o sorted
    ELSE <<Head(sorted)>> \o InsertAsc(Tail(sorted), x)

RECURSIVE SortAsc(_)
SortAsc(s) ==
    IF s = <<>> THEN <<>>
    ELSE InsertAsc(SortAsc(SubSeq(s, 1, Len(s) - 1)), s[Len(s)])


\* Math.floor and Math.round (round half up) of a finite number
MathFloor(x) == IF IsFinite(x) THEN I(x.n \div x.d) ELSE Num(x)
MathRound(x) == MathFloor(Add(x, Q(1, 2)))

-----------------------------------------------------------------------------
(* src/unnamed/part_001: calculateIPOPricing                               *)
(*                                                                         *)
(* A row is built in the order of the code, each step adding the fields it *)
(* computes to the row so far.  Math.log is kept symbolic: lnOf |-> x      *)
(* stands for ln(x), and adjustedImpliedPop is rational + ln(lnOf).        *)
(* Strings built from numbers are modelled by their leading words.         *)

\* const useDollarBased = (primaryDollarRaiseM !== undefined && primaryDollarRaiseM > 0)
useDollarBased_p001(a) ==
    ~IsUndefined(a.primaryDollarRaiseM) /\ Gt(a.primaryDollarRaiseM, Zero)

\* r.offerPrice === price
StrictEq(x, y) == ~IsUndefined(x) /\ ~IsUndefined(y) /\ x # NaN /\ x = y

\* ntmRevenue === 0 || ntmRevenue < 1
isPreRevenue_p001(a) == StrictEq(a.ntmRevenue, Zero) \/ Lt(a.ntmRevenue, One)

\* growthRates && fy2024to2025Growth && fy2025to2026Growth, then decelRate > 0
growthDecelPenalty_p001(a) ==
    IF Truthy(a.growthRates.fy2024to2025Growth) /\ Truthy(a.growthRates.fy2025to2026Growth)
       /\ Gt(Sub(One, Div(a.growthRates.fy2025to2026Growth,
                          a.growthRates.fy2024to2025Growth)), Zero)
    THEN Sub(One, Div(a.growthRates.fy2025to2026Growth, a.growthRates.fy2024to2025Growth))
    ELSE Zero

growthAdjustedPeerMultiple_p001(a) ==
    IF Gt(growthDecelPenalty_p001(a), Zero)
    THEN Mul(a.peerMedianEVRevenue, Sub(One, growthDecelPenalty_p001(a)))
    ELSE a.peerMedianEVRevenue

hasUserProvidedRange_p001(a) ==
    /\ ~IsUndefined(a.indicatedPriceRangeLow) /\ Gt(a.indicatedPriceRangeLow, Zero)
    /\ ~IsUndefined(a.indicatedPriceRangeHigh) /\ Gt(a.indicatedPriceRangeHigh, Zero)

\* faulty variant: a zero-width range passes the guard
isInvertedRange_strict(a) == Lt(a.indicatedPriceRangeHigh, a.indicatedPriceRangeLow)

\* the guard for an inverted or zero-width range
isInvertedRange_p001(a) == Le(a.indicatedPriceRangeHigh, a.indicatedPriceRangeLow)

\* for (let p = minPrice; p <= maxPrice; p += 1) if (p > 0) pricePoints.push(p)
RECURSIVE pricePoints_p001(_, _)
pricePoints_p001(p, maxPrice) ==
    IF Le(p, maxPrice)
    THEN (IF Gt(p, Zero) THEN <<p>> ELSE <<>>) \o pricePoints_p001(Add(p, One), maxPrice)
    ELSE <<>>

\* [...orderBook].sort((a, b) => b.priceLevel - a.priceLevel): stable, descending
RECURSIVE insertTier_p001(_, _)
insertTier_p001(sorted, e) ==
    IF sorted = <<>> THEN <<e>>
    ELSE IF Gt(e.priceLevel, Head(sorted).priceLevel) THEN <<e>> \o sorted
    ELSE <<Head(sorted)>> \o insertTier_p001(Tail(sorted), e)

RECURSIVE sortedOrderBook_p001(_)
sortedOrderBook_p001(book) ==
    IF book = <<>> THEN <<>>
    ELSE insertTier_p001(sortedOrderBook_p001(SubSeq(book, 1, Len(book) - 1)),
                         book[Len(book)])

\* sectorMedianFirstDayPop ?? sectorAverageFirstDayPop ?? historicalFirstDayPop ?? 0
baseExpectedReturn_p001(a) ==
    Coalesce(a.sectorMedianFirstDayPop,
             Coalesce(a.sectorAverageFirstDayPop, Coalesce(a.historicalFirstDayPop, Zero)))

hasUserProvidedPopData_p001(a) ==
    \/ ~IsUndefined(a.sectorMedianFirstDayPop)
    \/ ~IsUndefined(a.sectorAverageFirstDayPop)
    \/ ~IsUndefined(a.historicalFirstDayPop)

\* faulty variant: the share count is taken at one reference price, the bottom of the range
sharesSoldPrimary_atRangeLow(a, offerPrice) ==
    IF useDollarBased_p001(a)
    THEN Div(a.primaryDollarRaiseM, a.indicatedPriceRangeLow)
    ELSE OrElse(a.primarySharesOffered, Zero)

sharesSoldPrimary_p001(a, offerPrice) ==
    IF useDollarBased_p001(a)
    THEN Div(a.primaryDollarRaiseM, offerPrice)
    ELSE OrElse(a.primarySharesOffered, Zero)

\* faulty variant: the secondary dollar amount is used as a share count
sharesSoldSecondary_undivided(a, offerPrice) ==
    IF useDollarBased_p001(a)
    THEN OrElse(a.secondaryDollarRaiseM, Zero)
    ELSE OrElse(Default(a.secondarySharesOffered, Zero), Zero)

sharesSoldSecondary_p001(a, offerPrice) ==
    IF useDollarBased_p001(a)
    THEN Div(OrElse(a.secondaryDollarRaiseM, Zero), offerPrice)
    ELSE OrElse(Default(a.secondarySharesOffered, Zero), Zero)

sharesSoldGreenshoe_p001(a, primary) ==
    IF useDollarBased_p001(a)
    THEN Mul(primary, OrElse(a.greenshoePercent, Zero))
    ELSE OrElse(a.greenshoeShares, Mul(primary, OrElse(a.greenshoePercent, Zero)))

\* SHARES SOLD CALCULATION
sharesSold_p001(a, offerPrice, primary) ==
    [ offerPrice |-> offerPrice,
      sharesSoldPrimary |-> primary,
      sharesSoldSecondary |-> sharesSoldSecondary_p001(a, offerPrice),
      sharesSoldGreenshoe |-> sharesSoldGreenshoe_p001(a, primary) ]

\* only primary shares and greenshoe are dilutive
dilutiveShares_p001(primary, secondary, greenshoe) == Add(primary, greenshoe)

dilutionPercent_p001(dilutive, fdShares) == Div(dilutive, fdShares)

primaryProceedsM_p001(offerPrice, primary, greenshoe) ==
    Mul(offerPrice, Add(primary, greenshoe))

\* FULLY DILUTED SHARES, DILUTION and PROCEEDS
withDilution_p001(a, r, dilutive) ==
    r @@ [ totalSharesSold |->
               Add(Add(r.sharesSoldPrimary, r.sharesSoldSecondary), r.sharesSoldGreenshoe),
           fdSharesPostIPO |-> Add(a.sharesOutstandingPreIPO, dilutive),
           dilutionPercent |->
               dilutionPercent_p001(dilutive, Add(a.sharesOutstandingPreIPO, dilutive)),
           primaryProceedsM |->
               primaryProceedsM_p001(r.offerPrice, r.sharesSoldPrimary,
                                     r.sharesSoldGreenshoe),
           secondaryProceedsM |-> Mul(r.offerPrice, r.sharesSoldSecondary) ]

\* Post-IPO Cash = Current Cash + Primary Proceeds (secondary goes to sellers)
postIPOCashM_p001(currentCash, primaryProceeds, secondaryProceeds) ==
    Add(currentCash, primaryProceeds)

\* MARKET CAP and CASH POSITION POST-IPO
withMarketCap_p001(a, r) ==
    r @@ [ grossProceedsM |-> Add(r.primaryProceedsM, r.secondaryProceedsM),
           marketCapM |-> Mul(r.fdSharesPostIPO, r.offerPrice),
           postIPOCashM |->
               postIPOCashM_p001(Default(a.currentCash, Zero), r.primaryProceedsM,
                                 r.secondaryProceedsM),
           currentDebtM |-> Default(a.currentDebt, Zero) ]

\* faulty variant: debt is left out of enterprise value
enterpriseValueM_withoutDebt(marketCap, debt, postCash) == Sub(marketCap, postCash)

\* EV = MarketCap + Debt - Cash
enterpriseValueM_p001(marketCap, debt, postCash) == Sub(Add(marketCap, debt), postCash)

\* Math.round(x * k) / k
roundTo_p001(x, k) == Div(MathRound(Mul(x, I(k))), I(k))

\* ENTERPRISE VALUE, the multiples on it, and FAIR VALUE SUPPORT
withEnterpriseValue_p001(a, r, ev) ==
    r @@ [ enterpriseValueM |-> ev,
           ntmEVRevenue |-> IF isPreRevenue_p001(a) THEN PosInf
                            ELSE roundTo_p001(Div(ev, a.ntmRevenue), 10),
           evRaNPV |-> IF Gt(Default(a.totalRaNPV, Zero), Zero)
                       THEN roundTo_p001(Div(ev, Default(a.totalRaNPV, Zero)), 100)
                       ELSE Zero,
           growthAdjustedMultiple |-> growthAdjustedPeerMultiple_p001(a),
           fairValueSupport |-> roundTo_p001(Div(r.offerPrice, a.fairValuePerShare), 1000) ]

\* vs Peer Median comparisons
withPeerComparison_p001(a, r) ==
    r @@ [ vsPeerMedianRevenue |->
               IF isPreRevenue_p001(a) THEN PosInf
               ELSE roundTo_p001(Div(Sub(r.ntmEVRevenue, r.growthAdjustedMultiple),
                                     r.growthAdjustedMultiple), 1000),
           vsPeerMedianRaNPV |->
               IF Gt(Default(a.totalRaNPV, Zero), Zero)
                  /\ Gt(Default(a.peerMedianEVRaNPV, Zero), Zero)
               THEN roundTo_p001(Div(Sub(r.evRaNPV, Default(a.peerMedianEVRaNPV, Zero)),
                                     Default(a.peerMedianEVRaNPV, Zero)), 1000)
               ELSE Zero ]

\* the tier written for a row: <<oversubscription, orderBookTier, warnings of the lookup>>;
\* matched is sortedOrderBook.filter(entry => offerPrice >= entry.priceLevel)
tierOf_p001(sorted, offerPrice, matched) ==
    IF sorted = <<>> THEN <<One, <<"N/A">>, <<>> >>
    ELSE IF matched # <<>>
    THEN <<Head(matched).oversubscription, <<"$", Head(matched).priceLevel, "+">>, <<>> >>
    ELSE IF Gt(offerPrice, sorted[1].priceLevel)
    THEN <<sorted[1].oversubscription, <<"Above $", sorted[1].priceLevel>>,
           <<"Price above highest order book tier">> >>
    ELSE <<sorted[Len(sorted)].oversubscription,
           <<"Below $", sorted[Len(sorted)].priceLevel>>, <<>> >>

\* faulty variant: every price reads the highest tier of the book
orderBookLookup_highestTier(sorted, offerPrice) ==
    tierOf_p001(sorted, offerPrice, IF sorted = <<>> THEN <<>> ELSE <<sorted[1]>>)

\* ORDER BOOK LOOKUP over the tiers sorted by price descending
orderBookLookup_p001(sorted, offerPrice) ==
    tierOf_p001(sorted, offerPrice,
                SelectSeq(sorted, LAMBDA e : Ge(offerPrice, e.priceLevel)))

\* the notable orders that drop at offerPrice
investorsDropping_p001(a, offerPrice) ==
    SelectSeq(a.notableOrders, LAMBDA o : Truthy(o.maxPrice) /\ Gt(offerPrice, o.maxPrice))

RECURSIVE demandLostM_p001(_)
demandLostM_p001(dropping) ==
    IF dropping = <<>> THEN Zero
    ELSE Add(demandLostM_p001(SubSeq(dropping, 1, Len(dropping) - 1)),
             dropping[Len(dropping)].indicatedSizeM)

\* faulty variant: the reduced oversubscription is floored at 0
effectiveOversubscription_floored(oversubscription, demandLostM, grossProceedsM) ==
    IF Gt(demandLostM, Zero) /\ Gt(grossProceedsM, Zero)
    THEN MathMax(Zero,
                 Mul(oversubscription,
                     Sub(One, Div(demandLostM, Mul(grossProceedsM, oversubscription)))))
    ELSE oversubscription

\* effective oversubscription after drop-off
effectiveOversubscription_p001(oversubscription, demandLostM, grossProceedsM) ==
    IF Gt(demandLostM, Zero) /\ Gt(grossProceedsM, Zero)
    THEN Mul(oversubscription,
             Sub(One, Div(demandLostM, Mul(grossProceedsM, oversubscription))))
    ELSE oversubscription

\* ORDER BOOK LOOKUP and price-sensitive investor drop-off
withOrderBook_p001(a, r, lookup, dropping) ==
    r @@ [ oversubscription |-> lookup[1],
           orderBookTier |-> lookup[2],
           lookupWarnings |-> lookup[3],
           investorsDropping |-> [i \in 1..Len(dropping) |-> dropping[i].investorName],
           demandLostM |-> demandLostM_p001(dropping),
           effectiveOversubscription |->
               effectiveOversubscription_p001(lookup[1], demandLostM_p001(dropping),
                                              r.grossProceedsM) ]

\* faulty variant: the change is measured against the offer price
downRoundPercent_overOfferPrice(a, offerPrice) ==
    IF Truthy(a.lastPrivateRoundPrice) /\ Gt(a.lastPrivateRoundPrice, Zero)
    THEN Div(Sub(offerPrice, a.lastPrivateRoundPrice), offerPrice)
    ELSE Zero

\* (offerPrice - lastPrivateRoundPrice) / lastPrivateRoundPrice, 0 without a last round
downRoundPercent_p001(a, offerPrice) ==
    IF Truthy(a.lastPrivateRoundPrice) /\ Gt(a.lastPrivateRoundPrice, Zero)
    THEN Div(Sub(offerPrice, a.lastPrivateRoundPrice), a.lastPrivateRoundPrice)
    ELSE Zero

\* Down-round detection and discount
withDownRound_p001(a, r, downRoundPercent) ==
    r @@ [ downRoundPercent |-> downRoundPercent,
           isDownRound |-> Lt(downRoundPercent, Zero),
           downRoundDiscount |->
               IF Lt(downRoundPercent, Zero) /\ a.downRoundOptics
               THEN Mul(MathAbs(downRoundPercent), OrElse(a.downRoundIpoPenalty, Zero))
               ELSE Zero ]

\* bookQualityAdjustment = Math.log(lnOf); ln(1) = 0 stands for no adjustment
bookQualityAdjustment_p001(a, effectiveOversubscription) ==
    IF hasUserProvidedPopData_p001(a) /\ Len(a.orderBook) > 0
       /\ Gt(effectiveOversubscription, Zero) /\ Num(effectiveOversubscription) # One
    THEN [lnOf |-> effectiveOversubscription]
    ELSE [lnOf |-> One]

valuationPenalty_p001(a, fairValueSupport) ==
    IF hasUserProvidedPopData_p001(a) /\ Gt(fairValueSupport, One)
    THEN Neg(Sub(fairValueSupport, One))
    ELSE Zero

secondaryDiscount_p001(a, secondary, totalSharesSold) ==
    IF hasUserProvidedPopData_p001(a) /\ Gt(secondary, Zero) /\ Gt(totalSharesSold, Zero)
       /\ a.secondaryOptics = "negative"
    THEN Div(secondary, totalSharesSold)
    ELSE Zero

\* faulty variant: the months alone bring the discount, the flag is not read
catalystDiscount_withoutFlag(a) ==
    IF hasUserProvidedPopData_p001(a)
       /\ ~IsUndefined(a.monthsToCatalyst) /\ Gt(a.monthsToCatalyst, Zero)
    THEN Div(One, a.monthsToCatalyst)
    ELSE Zero

catalystDiscount_p001(a) ==
    IF hasUserProvidedPopData_p001(a) /\ a.hasBinaryCatalyst
       /\ ~IsUndefined(a.monthsToCatalyst) /\ Gt(a.monthsToCatalyst, Zero)
    THEN Div(One, a.monthsToCatalyst)
    ELSE Zero

dualClassDiscount_p001(a) == IF a.dualClass THEN Default(a.dualClassDiscount, Zero) ELSE Zero

customerConcentrationDiscount_p001(a) ==
    IF Gt(Default(a.customerConcentrationTop5, Zero), Q(40, 100))
    THEN Sub(Default(a.customerConcentrationTop5, Zero), Q(40, 100))
    ELSE Zero

\* the terms of the implied pop, each from its own rule
withPopTerms_p001(a, r) ==
    r @@ [ baseImpliedPop |-> IF hasUserProvidedPopData_p001(a)
                              THEN baseExpectedReturn_p001(a) ELSE Zero,
           bookQualityAdjustment |->
               bookQualityAdjustment_p001(a, r.effectiveOversubscription),
           valuationPenalty |-> valuationPenalty_p001(a, r.fairValueSupport),
           secondaryDiscount |->
               secondaryDiscount_p001(a, r.sharesSoldSecondary, r.totalSharesSold),
           catalystDiscount |-> catalystDiscount_p001(a),
           dualClassDiscount |-> dualClassDiscount_p001(a),
           customerConcentrationDiscount |-> customerConcentrationDiscount_p001(a),
           growthDecelPenalty |-> growthDecelPenalty_p001(a),
           founderOwnershipPost |->
               Div(Mul(a.foundersEmployeesOwnership, a.sharesOutstandingPreIPO),
                   r.fdSharesPostIPO) ]

\* adjustedImpliedPop: the sum of the terms, the logarithm kept apart
withAdjustedImpliedPop_p001(a, r) ==
    r @@ [ adjustedImpliedPop |->
               IF hasUserProvidedPopData_p001(a)
               THEN [ rational |->
                          Sub(Sub(Sub(Sub(Sub(Add(r.baseImpliedPop, r.valuationPenalty),
                                              r.secondaryDiscount),
                                          r.catalystDiscount),
                                      r.downRoundDiscount),
                                  r.dualClassDiscount),
                              r.customerConcentrationDiscount),
                      lnOf |-> r.bookQualityAdjustment.lnOf ]
               ELSE [rational |-> Zero, lnOf |-> One] ]

\* the row's warnings, in the order the code pushes them
rowWarnings_p001(a, r) ==
    r.lookupWarnings
    \o (IF Gt(r.fairValueSupport, One) THEN <<"Valuation">> ELSE <<>>)
    \o (IF Len(a.orderBook) > 0 /\ Gt(r.effectiveOversubscription, Zero)
        THEN <<"Book coverage">> ELSE <<>>)
    \o (IF Num(r.baseImpliedPop) # Zero THEN <<"Implied POP">> ELSE <<>>)
    \o (IF r.isDownRound THEN <<"DOWN-ROUND">> ELSE <<>>)
    \o (IF Len(r.investorsDropping) > 0 THEN <<"INVESTOR DROP-OFF">> ELSE <<>>)

\* the fields of the returned row
RowFields_p001 ==
    { "offerPrice", "sharesSoldPrimary", "sharesSoldSecondary", "sharesSoldGreenshoe",
      "totalSharesSold", "fdSharesPostIPO", "dilutionPercent", "founderOwnershipPost",
      "marketCapM", "postIPOCashM", "currentDebtM", "enterpriseValueM", "ntmEVRevenue",
      "evRaNPV", "growthAdjustedMultiple", "vsPeerMedianRevenue", "vsPeerMedianRaNPV",
      "fairValueSupport", "grossProceedsM", "primaryProceedsM", "secondaryProceedsM",
      "oversubscription", "effectiveOversubscription", "orderBookTier",
      "investorsDropping", "demandLostM", "downRoundPercent", "isDownRound",
      "downRoundDiscount", "baseImpliedPop", "bookQualityAdjustment", "valuationPenalty",
      "secondaryDiscount", "catalystDiscount", "dualClassDiscount",
      "customerConcentrationDiscount", "growthDecelPenalty", "adjustedImpliedPop",
      "warnings" }

returnedRow_p001(a, r) ==
    [f \in RowFields_p001 |-> IF f = "warnings" THEN rowWarnings_p001(a, r) ELSE r[f]]

\* the steps from the capital structure to the enterprise value
valuedRow_p001(a, r) ==
    withPeerComparison_p001(a,
        withEnterpriseValue_p001(a, r,
            enterpriseValueM_p001(r.marketCapM, r.currentDebtM, r.postIPOCashM)))

\* the steps from the order book to the implied pop
demandRow_p001(a, r) ==
    withAdjustedImpliedPop_p001(a,
        withPopTerms_p001(a,
            withDownRound_p001(a,
                withOrderBook_p001(a, r,
                    orderBookLookup_p001(sortedOrderBook_p001(a.orderBook), r.offerPrice),
                    investorsDropping_p001(a, r.offerPrice)),
                downRoundPercent_p001(a, r.offerPrice))))

dilutedRow_p001(a, r) ==
    withMarketCap_p001(a,
        withDilution_p001(a, r,
            dilutiveShares_p001(r.sharesSoldPrimary, r.sharesSoldSecondary,
                                r.sharesSoldGreenshoe)))

\* pricePoints.map(offerPrice => { ... })
PricingRow_p001(a, offerPrice) ==
    returnedRow_p001(a,
        demandRow_p001(a,
            valuedRow_p001(a,
                dilutedRow_p001(a,
                    sharesSold_p001(a, offerPrice,
                                    sharesSoldPrimary_p001(a, offerPrice))))))

rowsAt_p001(a, pricePoints) ==
    [i \in 1..Len(pricePoints) |-> PricingRow_p001(a, pricePoints[i])]

pricingMatrix_p001(a) ==
    rowsAt_p001(a, pricePoints_p001(a.indicatedPriceRangeLow, a.indicatedPriceRangeHigh))

\* Array.prototype.find on the offer price: index of the first match, 0 if none
FindRow(rows, price) ==
    IF \E i \in 1..Len(rows) : StrictEq(rows[i].offerPrice, price)
    THEN CHOOSE i \in 1..Len(rows) :
            /\ StrictEq(rows[i].offerPrice, price)
            /\ \A j \in 1..(i - 1) : ~StrictEq(rows[j].offerPrice, price)
    ELSE 0

\* [...rows].sort((a, b) => b.offerPrice - a.offerPrice): stable, descending
RECURSIVE InsertDesc(_, _)
InsertDesc(sorted, r) ==
    IF sorted = <<>> THEN <<r>>
    ELSE IF Gt(r.offerPrice, Head(sorted).offerPrice) THEN <<r>> \o sorted
    ELSE <<Head(sorted)>> \o InsertDesc(Tail(sorted), r)

RECURSIVE sortedByPrice(_)
sortedByPrice(rows) ==
    IF rows = <<>> THEN <<>>
    ELSE InsertDesc(sortedByPrice(SubSeq(rows, 1, Len(rows) - 1)), rows[Len(rows)])

\* sortedByPrice.reduce((closest, row) => |row - mid| < |closest - mid| ? row : closest)
RECURSIVE closestToMidpoint(_, _, _)
closestToMidpoint(closest, rest, mid) ==
    IF rest = <<>> THEN closest
    ELSE closestToMidpoint(
             IF Lt(MathAbs(Sub(Head(rest).offerPrice, mid)),
                   MathAbs(Sub(closest.offerPrice, mid)))
             THEN Head(rest) ELSE closest,
             Tail(rest), mid)

\* recommendedRow = find(price); if (!recommendedRow) the fallback row and its price
pickRow_p001(matrix, price, fallback) ==
    IF FindRow(matrix, price) # 0
    THEN <<price, matrix[FindRow(matrix, price)]>>
    ELSE <<fallback.offerPrice, fallback>>

\* faulty variant: the bottom of the range stands in for its midpoint
rangeMidpoint_atRangeLow(a) == a.indicatedPriceRangeLow

rangeMidpoint_p001(a) == Div(Add(a.indicatedPriceRangeLow, a.indicatedPriceRangeHigh), I(2))

\* the policy branch: <<recommendedPrice, recommendedRow>> before the
\* minimum-acceptable-price step; sorted is the matrix by price descending
selectByPolicy_p001(a, matrix, sorted) ==
    IF a.managementPriority = "runway_extension"
    THEN pickRow_p001(matrix, OrElse(a.minAcceptablePrice, a.indicatedPriceRangeLow),
                      sorted[Len(sorted)])
    ELSE IF a.pricingAggressiveness = "maximum"
    THEN pickRow_p001(matrix, a.indicatedPriceRangeHigh, sorted[1])
    ELSE IF a.pricingAggressiveness = "conservative"
    THEN pickRow_p001(matrix, a.indicatedPriceRangeLow, sorted[Len(sorted)])
    ELSE pickRow_p001(matrix, MathRound(rangeMidpoint_p001(a)),
                      closestToMidpoint(sorted[1], Tail(sorted), rangeMidpoint_p001(a)))

\* if (minAcceptablePrice && recommendedPrice < minAcceptablePrice) { ... }
respectMinAcceptablePrice_p001(a, matrix, sel) ==
    IF Truthy(a.minAcceptablePrice) /\ Lt(sel[1], a.minAcceptablePrice)
    THEN <<a.minAcceptablePrice,
           IF FindRow(matrix, a.minAcceptablePrice) # 0
           THEN matrix[FindRow(matrix, a.minAcceptablePrice)]
           ELSE sel[2]>>
    ELSE sel

\* formatIPOMemo: the row the memo is written from, or the error text
memoText_p001(matrix, recommendedPrice) ==
    IF \E i \in 1..Len(matrix) :
          Lt(MathAbs(Sub(matrix[i].offerPrice, recommendedPrice)), Q(1, 2))
    THEN "FINAL IPO PRICING RECOMMENDATION"
    ELSE "Error: Could not find recommended row"

\* the value of a row variable that holds no row (undefined)
NoRow == [offerPrice |-> Undefined]

errorResult_p001(a, errorWarning) ==
    [ threw |-> FALSE,
      assumptions |-> a,
      pricingMatrix |-> <<>>,
      recommendedRangeLow |-> Zero,
      recommendedRangeHigh |-> Zero,
      recommendedPrice |-> Zero,
      rationale |-> <<>>,
      warnings |-> <<errorWarning>>,
      memoText |-> "IPO PRICING ERROR" ]

\* the warnings of the result, in the order the code pushes them
warnings_p001(a, recommendedPrice, row) ==
    (IF a.managementPriority = "runway_extension"
     THEN <<"CEO priority: runway extension">> ELSE <<>>)
    \o (IF row.isDownRound /\ Truthy(a.lastPrivateRoundPrice)
        THEN <<"DOWN-ROUND ALERT">> ELSE <<>>)
    \o (IF a.dualClass THEN <<"Dual-class governance discount applied">> ELSE <<>>)
    \o (IF Gt(Default(a.customerConcentrationTop5, Zero), Q(40, 100))
        THEN <<"Customer concentration risk">> ELSE <<>>)
    \o (IF Gt(growthDecelPenalty_p001(a), Zero)
        THEN <<"Growth deceleration penalty">> ELSE <<>>)
    \o (IF Truthy(a.lastPrivateRoundPrice) /\ Truthy(a.minAcceptablePrice)
           /\ a.ceoGuidance = "control the narrative"
           /\ Lt(recommendedPrice, a.lastPrivateRoundPrice)
        THEN <<"CEO DIRECTIVE CONTRADICTION">> ELSE <<>>)
    \o row.warnings

\* |ln(x)| > 0.02: x above e^0.02 = 1.0202... or below e^-0.02 = 0.9801...
lnExceeds2Percent_p001(x) == Gt(x, Q(10202, 10000)) \/ Lt(x, Q(9802, 10000))

rationale_p001(a, row) ==
    (IF (a.sector = "biotech" \/ isPreRevenue_p001(a)) /\ Gt(Default(a.totalRaNPV, Zero), Zero)
     THEN <<"EV/raNPV">> ELSE <<"NTM EV/Revenue">>)
    \o (IF ~StrictEq(row.effectiveOversubscription, row.oversubscription)
        THEN <<"Book coverage: raw, effective">> ELSE <<"Book coverage: oversubscribed">>)
    \o <<"Expected Day-1 return">>
    \o (IF lnExceeds2Percent_p001(row.bookQualityAdjustment.lnOf)
        THEN <<"Book quality adjustment">> ELSE <<>>)
    \o (IF Gt(MathAbs(row.valuationPenalty), Q(2, 100))
        THEN <<"Valuation penalty">> ELSE <<>>)
    \o (IF Gt(row.secondaryDiscount, Q(1, 100))
        THEN <<"Secondary selling discount">> ELSE <<>>)
    \o (IF Gt(row.catalystDiscount, Q(1, 100))
        THEN <<"Binary catalyst risk discount">> ELSE <<>>)
    \o (IF Gt(row.downRoundDiscount, Q(1, 100)) THEN <<"Down-round discount">> ELSE <<>>)
    \o (IF Gt(row.dualClassDiscount, Q(1, 100))
        THEN <<"Dual-class governance discount">> ELSE <<>>)
    \o (IF Gt(row.customerConcentrationDiscount, Q(1, 100))
        THEN <<"Customer concentration discount">> ELSE <<>>)
    \o (IF a.managementPriority = "runway_extension"
        THEN <<"CEO priority">>
             \o (IF a.ceoGuidance # "" THEN <<"CEO guidance">> ELSE <<>>)
        ELSE <<>>)
    \o <<"Founders retain", "Gross proceeds">>

\* the result for a priced matrix; sel is <<recommendedPrice, recommendedRow>>
pricedResult_p001(a, matrix, sel) ==
    [ threw |-> FALSE,
      assumptions |-> a,
      pricingMatrix |-> matrix,
      recommendedRangeLow |-> a.indicatedPriceRangeLow,
      recommendedRangeHigh |-> a.indicatedPriceRangeHigh,
      recommendedPrice |-> sel[1],
      rationale |-> rationale_p001(a, sel[2]),
      warnings |-> warnings_p001(a, sel[1], sel[2]),
      memoText |-> memoText_p001(matrix, sel[1]) ]

\* RECOMMENDATION LOGIC on the matrix
recommend_p001(a, matrix) ==
    pricedResult_p001(a, matrix,
        respectMinAcceptablePrice_p001(a, matrix,
            selectByPolicy_p001(a, matrix, sortedByPrice(matrix))))

\* faulty variant: orderBook.sort(...) orders the caller's array in place
orderBookAfterCall_sortedInPlace(orderBook) == sortedOrderBook_p001(orderBook)

\* [...orderBook].sort(...): the spread copies the array and the copy is
\* sorted; the array of the caller keeps its order
orderBookAfterCall_p001(orderBook) == orderBook

\* the assumptions object after calculateIPOPricing has returned res for it:
\* the fields are read by destructuring and never assigned; the error results
\* return before the order book is sorted
assumptionsAfterCall_p001(a, res) ==
    IF res.pricingMatrix = <<>> THEN a
    ELSE [a EXCEPT !.orderBook = orderBookAfterCall_p001(@)]

calculateIPOPricing_p001(a) ==
    IF ~hasUserProvidedRange_p001(a)
    THEN errorResult_p001(a, "ERROR: Price range is REQUIRED")
    ELSE IF isInvertedRange_p001(a)
    THEN errorResult_p001(a, "ERROR: indicatedPriceRangeHigh must be greater")
    ELSE recommend_p001(a, pricingMatrix_p001(a))

-----------------------------------------------------------------------------
(* src/unnamed/part_000: calculateIPOPricing *)

\* holder.secondarySalePercent ? holder.shares * holder.secondarySalePercent : 0
holdersSecondarySale_p000(holder) ==
    IF Truthy(holder.secondarySalePercent)
    THEN Mul(holder.shares, holder.secondarySalePercent)
    ELSE Zero

\* the loop over preIPOShares.breakdown that adds up shares * secondarySalePercent
calculatedSecondaryShares_p000(breakdown) ==
    SumSeq([i \in 1..Len(breakdown) |->
               IF Truthy(breakdown[i].secondarySalePercent)
                  /\ Gt(breakdown[i].secondarySalePercent, Zero)
               THEN Mul(breakdown[i].shares, breakdown[i].secondarySalePercent)
               ELSE Zero])

\* faulty variant: the per-holder fractions never replace the direct total
effectiveSecondary_alwaysProvided(calculated, provided) == provided

\* if (calculatedSecondaryShares > 0) secondarySaleShares = calculatedSecondaryShares
effectiveSecondary_p000(calculated, provided) ==
    IF Gt(calculated, Zero) THEN calculated ELSE provided

secondarySaleShares_p000(a) ==
    effectiveSecondary_p000(calculatedSecondaryShares_p000(a.preIPOShares.breakdown),
                            a.secondarySaleShares)

\* revenueGrowthRates[i] || revenueGrowthRates[length - 1] || dflt   (i from 0)
growthRate_p000(rates, i, dflt) ==
    OrElse(IF i + 1 <= Len(rates) THEN rates[i + 1] ELSE Undefined,
           OrElse(IF Len(rates) > 0 THEN rates[Len(rates)] ELSE Undefined, dflt))

\* (ebitda - da) * (1 - taxRate) + da - capex - nwcChange
fcfOf_p000(a, ebitda, da, capex, nwcChange) ==
    Sub(Sub(Add(Mul(Sub(ebitda, da), Sub(One, a.taxRate)), da), capex), nwcChange)

\* one year's free cash flow; k holds the ratios of the methodology
fcf_p000(a, revenue, margin, growth, k) ==
    IF k.floorAtZero
    THEN MathMax(Zero, fcfOf_p000(a, Mul(revenue, margin), Mul(revenue, k.da),
                                  Mul(revenue, k.capex),
                                  Mul(Mul(revenue, growth), k.nwc)))
    ELSE fcfOf_p000(a, Mul(revenue, margin), Mul(revenue, k.da), Mul(revenue, k.capex),
                    Mul(Mul(revenue, growth), k.nwc))

MatureRatios ==
    [da |-> Q(4, 100), capex |-> Q(5, 100), nwc |-> Q(10, 100), dfltGrowth |-> Q(5, 100),
     capMargin |-> TRUE, floorAtZero |-> FALSE]
HighGrowthRatios ==
    [da |-> Q(3, 100), capex |-> Q(4, 100), nwc |-> Q(8, 100), dfltGrowth |-> Q(20, 100),
     capMargin |-> FALSE, floorAtZero |-> TRUE]

\* const marginStep = (targetEbitdaMargin - ebitdaMargin) / projectionYears
marginStep_p000(a) ==
    Div(Sub(a.targetEbitdaMargin, a.ebitdaMargin), I(a.projectionYears))

\* projectedMargin after one more year
projectedMargin_p000(a, k, margin) ==
    IF k.capMargin
    THEN MathMin(Add(margin, marginStep_p000(a)), a.targetEbitdaMargin)
    ELSE Add(margin, marginStep_p000(a))

\* for (let i = 0; i < projectionYears; i++) { ... projectedFCF.push(fcf) }
RECURSIVE projectedFCF_p000(_, _, _, _, _)
RECURSIVE projectedYear_p000(_, _, _, _, _, _)
projectedYear_p000(a, k, i, growth, revenue, margin) ==
    <<fcf_p000(a, revenue, margin, growth, k)>>
    \o projectedFCF_p000(a, k, i + 1, revenue, margin)

projectedFCF_p000(a, k, i, revenue, margin) ==
    IF i >= a.projectionYears THEN <<>>
    ELSE projectedYear_p000(a, k, i, growthRate_p000(a.revenueGrowthRates, i, k.dfltGrowth),
             Mul(revenue, Add(One, growthRate_p000(a.revenueGrowthRates, i, k.dfltGrowth))),
             projectedMargin_p000(a, k, margin))

\* const terminalValue = terminalFCF / (wacc - terminalGrowthRate)
terminalValue_p000(a, terminalFCF) == Div(terminalFCF, Sub(a.wacc, a.terminalGrowthRate))

\* projectedFCF[projectedFCF.length - 1]
lastFCF_p000(fcfs) == IF fcfs = <<>> THEN Undefined ELSE fcfs[Len(fcfs)]

\* discounted cash flows plus discounted terminal value
dcfValue_p000(a, fcfs) ==
    Add(SumSeq([i \in 1..Len(fcfs) |-> Div(fcfs[i], Pow(Add(One, a.wacc), i))]),
        Div(terminalValue_p000(a, Mul(lastFCF_p000(fcfs), Add(One, a.terminalGrowthRate))),
            Pow(Add(One, a.wacc), a.projectionYears)))

positiveMultiple_p000(x) == Truthy(x) /\ Gt(x, Zero)

\* comparables.filter(c => c.x && c.x > 0).map(c => c.x).sort((a, b) => a - b)
positiveMultiples_p000(comparables, field) ==
    SortAsc(SelectSeq([i \in 1..Len(comparables) |-> comparables[i][field]],
                      positiveMultiple_p000))

\* sorted[Math.floor(sorted.length / 2)]
median_p000(sorted) == sorted[(Len(sorted) \div 2) + 1]

\* the median, or dflt when no comparable carries the multiple
medianOr_p000(sorted, dflt) == IF Len(sorted) > 0 THEN median_p000(sorted) ELSE dflt

\* the sales curve of a pipeline asset, yearsPostLaunch after its launch
salesFactor_p000(yearsPostLaunch) ==
    IF yearsPostLaunch <= 3 THEN Q(yearsPostLaunch, 3)
    ELSE IF yearsPostLaunch <= 7 THEN One
    ELSE Sub(One, Mul(I(yearsPostLaunch - 7), Q(15, 100)))

\* const yearsToLaunch = asset.launchYear - new Date().getFullYear()
yearsToLaunch_p000(asset, now) == asset.launchYear - now

\* fcf / Math.pow(1 + wacc, year) for the year yearsPostLaunch after the launch
assetYear_p000(a, asset, yearsToLaunch, yearsPostLaunch) ==
    Div(Mul(Mul(Mul(asset.peakSales, MathMax(Zero, salesFactor_p000(yearsPostLaunch))),
                Q(30, 100)),
            Sub(One, a.taxRate)),
        Pow(Add(One, a.wacc), yearsToLaunch + yearsPostLaunch))

\* the discounted cash flows of one asset over the eleven years from its launch
assetNPV_p000(a, asset, now) ==
    SumSeq([n \in 1..11 |-> assetYear_p000(a, asset, yearsToLaunch_p000(asset, now), n - 1)])

totalRNPV_p000(a, now) ==
    SumSeq([i \in 1..Len(a.pipelineAssets) |->
               Mul(assetNPV_p000(a, a.pipelineAssets[i], now),
                   a.pipelineAssets[i].probabilityOfSuccess)])

\* the DCF cross-checked with the median EBITDA multiple
crossChecked_p000(a, dcf, multiples) ==
    IF /\ Len(a.comparables) > 0
       /\ Len(multiples) > 0
       /\ Gt(a.currentEBITDA, Zero)
       /\ a.companyType = "industrial"
    THEN MathMin(dcf, Mul(a.currentEBITDA, median_p000(multiples)))
    ELSE dcf

\* const ntmRevenue = currentRevenue * (1 + (revenueGrowthRates[0] || 0.30))
ntmRevenue_p000(a) ==
    Mul(a.currentRevenue,
        Add(One, OrElse(IF Len(a.revenueGrowthRates) > 0
                        THEN a.revenueGrowthRates[1] ELSE Undefined,
                        Q(30, 100))))

\* STEP 1: <<enterpriseValue, warnings>>
enterpriseValue_p000(a, now) ==
    IF a.companyType \in {"mature", "industrial"}
    THEN <<crossChecked_p000(a,
               dcfValue_p000(a, projectedFCF_p000(a, MatureRatios, 0, a.currentRevenue,
                                                  a.ebitdaMargin)),
               positiveMultiples_p000(a.comparables, "evEbitda")),
           <<>> >>
    ELSE IF a.companyType = "high-growth"
    THEN <<MathMin(Mul(ntmRevenue_p000(a),
                       medianOr_p000(positiveMultiples_p000(a.comparables, "evRevenue"),
                                     I(10))),
                   dcfValue_p000(a, projectedFCF_p000(a, HighGrowthRatios, 0,
                                                      a.currentRevenue, a.ebitdaMargin))),
           <<>> >>
    ELSE IF a.companyType = "biotech"
    THEN IF Len(a.pipelineAssets) > 0
         THEN <<totalRNPV_p000(a, now), <<>> >>
         ELSE <<Mul(Mul(a.currentRevenue,
                        medianOr_p000(positiveMultiples_p000(a.comparables, "evRevenue"),
                                      I(5))),
                    Q(1, 2)),
                <<"Limited pipeline data">> >>
    ELSE <<Zero, <<>> >>

\* const underwritingDiscount = 0.07
underwritingDiscount_p000 == Q(7, 100)

\* faulty variant: the voting multiple counts whether or not the company is dual-class
votingWeight_alwaysMultiple(a, holder) ==
    IF Truthy(holder.votingMultiple) THEN holder.votingMultiple ELSE One

\* dualClassShares && holder.votingMultiple ? holder.votingMultiple : 1
votingWeight_p000(a, holder) ==
    IF a.dualClassShares /\ Truthy(holder.votingMultiple) THEN holder.votingMultiple ELSE One

postIPOHolderShares_p000(holder) == Sub(holder.shares, holdersSecondarySale_p000(holder))

\* the voting-power denominator: every holder's post-IPO votes plus the public float
totalVotingShares_p000(a, publicFloat) ==
    Add(SumSeq([i \in 1..Len(a.preIPOShares.breakdown) |->
                   Mul(postIPOHolderShares_p000(a.preIPOShares.breakdown[i]),
                       votingWeight_p000(a, a.preIPOShares.breakdown[i]))]),
        Mul(publicFloat, One))

\* STEP 2: equity value and fair value per share
withEquityValue_p000(a, enterpriseValue) ==
    [ enterpriseValue |-> enterpriseValue,
      equityValue |-> Add(Sub(enterpriseValue, a.currentDebt), a.currentCash),
      fairValuePerShare |->
          Div(Add(Sub(enterpriseValue, a.currentDebt), a.currentCash), a.preIPOShares.total) ]

\* const discountedPrice = fairValuePerShare * (1 - ipoDiscountPercent)
midPrice_p000(a, fairValuePerShare) == Mul(fairValuePerShare, Sub(One, a.ipoDiscountPercent))

\* STEP 3: the offer price range around the discounted price
withPriceRange_p000(a, r, midPrice) ==
    r @@ [ priceRange |-> [ low |-> Mul(midPrice, Q(90, 100)),
                            mid |-> midPrice,
                            high |-> Mul(midPrice, Q(110, 100)) ],
           recommendedOfferPrice |-> midPrice ]

\* STEP 4: primary shares at each price, and the secondary shares
withPrimaryShares_p000(a, r, secondary) ==
    r @@ [ preIPOSharesTotal |-> a.preIPOShares.total,
           primarySharesIssued |-> Div(a.primaryRaiseAmount, r.priceRange.mid),
           primarySharesAtLow |-> Div(a.primaryRaiseAmount, r.priceRange.low),
           primarySharesAtHigh |-> Div(a.primaryRaiseAmount, r.priceRange.high),
           secondarySharesSold |-> secondary ]

\* Greenshoe: (primary + secondary) * greenshoePercent
greenshoeShares_p000(a, primaryShares, secondaryShares) ==
    Mul(Add(primaryShares, secondaryShares), a.greenshoePercent)

\* shares outstanding after the offering: pre-IPO + primary + greenshoe
postIPOShares_p000(a, primaryShares, greenshoe) ==
    Add(Add(a.preIPOShares.total, primaryShares), greenshoe)

publicFloat_p000(primaryShares, secondaryShares, greenshoe) ==
    Add(Add(primaryShares, secondaryShares), greenshoe)

\* STEP 4: greenshoe, post-IPO shares and public float
withShareMechanics_p000(a, r, greenshoe) ==
    r @@ [ greenshoeShares |-> greenshoe,
           postIPOSharesTotal |-> postIPOShares_p000(a, r.primarySharesIssued, greenshoe),
           publicFloat |->
               publicFloat_p000(r.primarySharesIssued, r.secondarySharesSold, greenshoe) ]

\* x * midPrice * (1 - underwritingDiscount)
netOfDiscount_p000(shares, price) ==
    Mul(Mul(shares, price), Sub(One, underwritingDiscount_p000))

\* STEP 5: proceeds
withProceeds_p000(a, r) ==
    r @@ [ grossPrimaryProceeds |-> Mul(r.primarySharesIssued, r.priceRange.mid),
           netPrimaryProceeds |->
               Mul(Mul(r.primarySharesIssued, r.priceRange.mid),
                   Sub(One, underwritingDiscount_p000)),
           secondaryProceeds |-> netOfDiscount_p000(r.secondarySharesSold, r.priceRange.mid),
           greenshoeProceeds |-> netOfDiscount_p000(r.greenshoeShares, r.priceRange.mid),
           totalOfferingSize |->
               Mul(Add(Add(r.primarySharesIssued, r.secondarySharesSold),
                       r.greenshoeShares), r.priceRange.mid) ]

\* faulty variant: the proceeds of the selling holders are counted as the company's cash
postIPOCash_withSecondary(a, netPrimaryProceeds, greenshoeProceeds, secondaryProceeds) ==
    Sub(Add(Add(Add(a.currentCash, netPrimaryProceeds), greenshoeProceeds),
            secondaryProceeds),
        Default(a.debtRepaymentAmount, Zero))

\* currentCash + netPrimaryProceeds + greenshoeProceeds - debtRepaymentAmount
postIPOCash_p000(a, netPrimaryProceeds, greenshoeProceeds, secondaryProceeds) ==
    Sub(Add(Add(a.currentCash, netPrimaryProceeds), greenshoeProceeds),
        Default(a.debtRepaymentAmount, Zero))

\* Math.max(0, currentDebt - debtRepaymentAmount)
postIPODebt_p000(a) ==
    MathMax(Zero, Sub(a.currentDebt, Default(a.debtRepaymentAmount, Zero)))

\* marketCap + postIPODebt - postIPOCash
enterpriseValueFromMarketCap_p000(marketCap, debt, cash) == Sub(Add(marketCap, debt), cash)

\* STEP 6: post-IPO financial position
withPostIPOPosition_p000(a, r) ==
    r @@ [ postIPOCash |->
               postIPOCash_p000(a, r.netPrimaryProceeds, r.greenshoeProceeds,
                                r.secondaryProceeds),
           postIPODebt |-> postIPODebt_p000(a),
           marketCap |-> Mul(r.postIPOSharesTotal, r.priceRange.mid),
           impliedPreIPOValuation |-> Mul(r.priceRange.mid, a.preIPOShares.total) ]

withPostIPOEnterpriseValue_p000(a, r) ==
    r @@ [ postIPOEnterpriseValue |->
               enterpriseValueFromMarketCap_p000(r.marketCap, r.postIPODebt,
                                                 r.postIPOCash) ]

ownershipEntry_p000(a, holder, postIPOShares, totalVotingShares) ==
    [ name |-> holder.name,
      preIPOShares |-> holder.shares,
      preIPOPercent |-> Mul(Div(holder.shares, a.preIPOShares.total), Hundred),
      postIPOShares |-> postIPOHolderShares_p000(holder),
      postIPOPercent |-> Mul(Div(postIPOHolderShares_p000(holder), postIPOShares), Hundred),
      votingPercent |->
          Mul(Div(Mul(postIPOHolderShares_p000(holder), votingWeight_p000(a, holder)),
                  totalVotingShares), Hundred) ]

publicEntry_p000(publicFloat, postIPOShares, totalVotingShares) ==
    [ name |-> "Public Shareholders",
      preIPOShares |-> Zero,
      preIPOPercent |-> Zero,
      postIPOShares |-> publicFloat,
      postIPOPercent |-> Mul(Div(publicFloat, postIPOShares), Hundred),
      votingPercent |-> Mul(Div(Mul(publicFloat, One), totalVotingShares), Hundred) ]

\* STEP 7: one entry per holder, then the public shareholders
ownershipTable_p000(a, publicFloat, postIPOShares, totalVotingShares) ==
    [i \in 1..Len(a.preIPOShares.breakdown) |->
        ownershipEntry_p000(a, a.preIPOShares.breakdown[i], postIPOShares,
                            totalVotingShares)]
    \o <<publicEntry_p000(publicFloat, postIPOShares, totalVotingShares)>>

\* Dilution % = new shares / (pre-IPO shares + new shares) * 100
dilution_p000(a, newShares) ==
    Mul(Div(newShares, Add(a.preIPOShares.total, newShares)), Hundred)

\* post-IPO shares of the holders of type "founder"
totalFounderPostIPOShares_p000(a) ==
    SumSeq([i \in 1..Len(a.preIPOShares.breakdown) |->
               IF a.preIPOShares.breakdown[i].type = "founder"
               THEN postIPOHolderShares_p000(a.preIPOShares.breakdown[i])
               ELSE Zero])

\* STEP 7: ownership table, dilution and founder ownership
withOwnership_p000(a, r) ==
    r @@ [ ownershipTable |->
               ownershipTable_p000(a, r.publicFloat, r.postIPOSharesTotal,
                                   totalVotingShares_p000(a, r.publicFloat)),
           dilutionPercent |->
               dilution_p000(a, Add(r.primarySharesIssued, r.greenshoeShares)),
           founderPostIPOPercent |->
               Mul(Div(totalFounderPostIPOShares_p000(a), r.postIPOSharesTotal), Hundred) ]

\* comparables.filter(c => c.x).map(c => c.x).sort((a, b) => a - b)
truthyMultiples_p000(comparables, field) ==
    SortAsc(SelectSeq([i \in 1..Len(comparables) |-> comparables[i][field]], Truthy))

\* STEP 8: valuation multiples (null is written as undefined)
withMultiples_p000(a, r) ==
    r @@ [ impliedEVRevenue |-> Div(r.postIPOEnterpriseValue, a.currentRevenue),
           impliedEVEBITDA |-> IF Gt(a.currentEBITDA, Zero)
                               THEN Div(r.postIPOEnterpriseValue, a.currentEBITDA)
                               ELSE Undefined,
           comparableMedianEVRevenue |->
               IF Len(truthyMultiples_p000(a.comparables, "evRevenue")) > 0
               THEN median_p000(truthyMultiples_p000(a.comparables, "evRevenue"))
               ELSE Div(r.postIPOEnterpriseValue, a.currentRevenue),
           comparableMedianEVEBITDA |->
               IF Len(truthyMultiples_p000(a.comparables, "evEbitda")) > 0
               THEN median_p000(truthyMultiples_p000(a.comparables, "evEbitda"))
               ELSE Undefined ]

\* the locals of createScenario
scenarioShares_p000(a, price, primaryShares, scenarioGreenshoe) ==
    [ offerPrice |-> price,
      primaryShares |-> primaryShares,
      scenarioGreenshoe |-> scenarioGreenshoe,
      scenarioNewShares |-> Add(primaryShares, scenarioGreenshoe),
      postShares |-> Add(a.preIPOShares.total, Add(primaryShares, scenarioGreenshoe)),
      postCash |->
          postIPOCash_p000(a, netOfDiscount_p000(primaryShares, price),
                           netOfDiscount_p000(scenarioGreenshoe, price), Zero),
      postDebt |-> postIPODebt_p000(a) ]

scenarioLocals_p000(a, price, primaryShares, secondaryShares) ==
    scenarioShares_p000(a, price, primaryShares,
                        greenshoeShares_p000(a, primaryShares, secondaryShares))

\* the row createScenario returns, from its locals s and the enterprise value ev
scenarioRow_p000(a, scenarioName, s, ev, fairValuePerShare, totalFounderPostIPOShares) ==
    [ scenario |-> scenarioName,
      offerPrice |-> s.offerPrice,
      primaryShares |-> s.primaryShares,
      marketCap |-> Mul(s.postShares, s.offerPrice),
      enterpriseValue |-> ev,
      evRevenue |-> Div(ev, a.currentRevenue),
      evEbitda |-> IF Gt(a.currentEBITDA, Zero) THEN Div(ev, a.currentEBITDA)
                   ELSE Undefined,
      dilution |-> dilution_p000(a, s.scenarioNewShares),
      founderOwnership |-> Mul(Div(totalFounderPostIPOShares, s.postShares), Hundred),
      expectedDayOnePop |->
          MathMax(Zero, Mul(Div(Sub(fairValuePerShare, s.offerPrice), s.offerPrice),
                            Hundred)) ]

scenarioOf_p000(a, scenarioName, s, fairValuePerShare) ==
    scenarioRow_p000(a, scenarioName, s,
        enterpriseValueFromMarketCap_p000(Mul(s.postShares, s.offerPrice), s.postDebt,
                                          s.postCash),
        fairValuePerShare, totalFounderPostIPOShares_p000(a))

\* STEP 9: one row of the Low/Mid/High matrix
createScenario_p000(a, scenarioName, price, primaryShares, secondaryShares, fairValue) ==
    scenarioOf_p000(a, scenarioName,
                    scenarioLocals_p000(a, price, primaryShares, secondaryShares),
                    fairValue)

withPricingMatrix_p000(a, r) ==
    r @@ [ pricingMatrix |->
             << createScenario_p000(a, "Low", r.priceRange.low, r.primarySharesAtLow,
                                    r.secondarySharesSold, r.fairValuePerShare),
                createScenario_p000(a, "Mid", r.priceRange.mid, r.primarySharesIssued,
                                    r.secondarySharesSold, r.fairValuePerShare),
                createScenario_p000(a, "High", r.priceRange.high, r.primarySharesAtHigh,
                                    r.secondarySharesSold, r.fairValuePerShare) >> ]

\* the sum the validation of the ownership table computes
totalOwnership_p000(ownershipTable) ==
    SumSeq([i \in 1..Len(ownershipTable) |-> ownershipTable[i].postIPOPercent])

\* the warnings after those of STEP 1, in the order the code pushes them
warnings_p000(a, r) ==
    (IF Truthy(a.founderControlMinimum)
        /\ Lt(r.founderPostIPOPercent, Mul(a.founderControlMinimum, Hundred))
     THEN <<"Founder ownership falls below required minimum">> ELSE <<>>)
    \o (IF Gt(MathAbs(Sub(totalOwnership_p000(r.ownershipTable), Hundred)), Q(1, 2))
        THEN <<"Ownership percentages sum (should be 100%)">> ELSE <<>>)
    \o (IF Ge(r.dilutionPercent, Hundred) THEN <<"Dilution is invalid">> ELSE <<>>)
    \o (IF Ge(r.priceRange.mid, r.fairValuePerShare)
        THEN <<"Offer price should be below fair value">> ELSE <<>>)
    \o (IF Gt(r.dilutionPercent, I(30)) THEN <<"High dilution">> ELSE <<>>)
    \o (IF Lt(a.currentEBITDA, Zero) THEN <<"Company is not yet profitable">> ELSE <<>>)

\* STEP 10: the recommendation, by its leading words
recommendation_p000(expectedPop) ==
    IF Gt(expectedPop, I(30)) THEN "PRICE HIGHER"
    ELSE IF Lt(expectedPop, I(10)) THEN "PRICE CAREFULLY"
    ELSE "PRICE AT MID-POINT"

\* the fields of the returned object that are computed from numbers
ResultFields_p000 ==
    { "enterpriseValue", "equityValue", "fairValuePerShare", "preIPOSharesTotal",
      "primarySharesIssued", "secondarySharesSold", "greenshoeShares",
      "postIPOSharesTotal", "publicFloat", "priceRange", "recommendedOfferPrice",
      "grossPrimaryProceeds", "netPrimaryProceeds", "secondaryProceeds",
      "greenshoeProceeds", "totalOfferingSize", "postIPOCash", "postIPODebt",
      "postIPOEnterpriseValue", "marketCap", "impliedPreIPOValuation",
      "dilutionPercent", "ownershipTable", "impliedEVRevenue", "impliedEVEBITDA",
      "comparableMedianEVRevenue", "comparableMedianEVEBITDA", "pricingMatrix" }

returned_p000(a, r, valuationWarnings) ==
    [f \in ResultFields_p000 |-> r[f]]
    @@ [ threw |-> FALSE,
         companyType |-> a.companyType,
         warnings |-> valuationWarnings \o warnings_p000(a, r),
         recommendation |->
             recommendation_p000(
                 Mul(Div(Sub(r.fairValuePerShare, r.priceRange.mid), r.priceRange.mid),
                     Hundred)) ]

\* STEP 2 to STEP 5 for an enterprise value and the secondary shares sold
offering_p000(a, r) ==
    withProceeds_p000(a,
        withShareMechanics_p000(a, r,
            greenshoeShares_p000(a, r.primarySharesIssued, r.secondarySharesSold)))

pricedShares_p000(a, secondary, r) ==
    withPrimaryShares_p000(a,
        withPriceRange_p000(a, r, midPrice_p000(a, r.fairValuePerShare)), secondary)

\* STEP 6 to STEP 9
position_p000(a, r) ==
    withPricingMatrix_p000(a,
        withMultiples_p000(a,
            withOwnership_p000(a,
                withPostIPOEnterpriseValue_p000(a, withPostIPOPosition_p000(a, r)))))

\* valuation is <<enterpriseValue, warnings>> of STEP 1
analysis_p000(a, secondary, valuation) ==
    returned_p000(a,
        position_p000(a,
            offering_p000(a,
                pricedShares_p000(a, secondary, withEquityValue_p000(a, valuation[1])))),
        valuation[2])

\* comparables.filter(...).map(...).sort(...): filter and map build new
\* arrays and the sort orders the new one; the array of the caller keeps its order
comparablesAfterCall_p000(comparables) == comparables

\* the assumptions object after calculateIPOPricing has run on it: the fields
\* are read by destructuring and never assigned, the holders of the breakdown
\* are only read
assumptionsAfterCall_p000(a) ==
    [a EXCEPT !.comparables = comparablesAfterCall_p000(@)]

calculateIPOPricing_p000(a, now) ==
    IF IsUndefined(secondarySaleShares_p000(a))
    THEN [threw |-> TRUE]     \* secondarySaleShares.toFixed(2) of undefined
    ELSE analysis_p000(a, secondarySaleShares_p000(a), enterpriseValue_p000(a, now))

-----------------------------------------------------------------------------
(* src/server/services/ipoPricingService.ts: calculateIPOPricing *)
(* an absent orderBook is modelled as the empty sequence: the code treats  *)
(* both alike (orderBook && orderBook.length > 0, orderBook ? [...] : [])  *)

\* greenshoeShares || (primarySharesOffered * greenshoePercent)
actualGreenshoeShares_svc(a) ==
    OrElse(a.greenshoeShares, Mul(a.primarySharesOffered, a.greenshoePercent))

totalSharesForProceeds_svc(a) ==
    Add(Add(a.primarySharesOffered, Default(a.secondarySharesOffered, Zero)),
        actualGreenshoeShares_svc(a))

fdSharesPostIPO_svc(a) ==
    Add(Add(a.sharesOutstandingPreIPO, a.primarySharesOffered), actualGreenshoeShares_svc(a))

\* Math.min(x, ...bookPrices) and Math.max(x, ...bookPrices)
RECURSIVE minOverBook_svc(_, _)
minOverBook_svc(x, book) ==
    IF book = <<>> THEN x
    ELSE minOverBook_svc(MathMin(x, Head(book).priceLevel), Tail(book))

RECURSIVE maxOverBook_svc(_, _)
maxOverBook_svc(x, book) ==
    IF book = <<>> THEN x
    ELSE maxOverBook_svc(MathMax(x, Head(book).priceLevel), Tail(book))

\* let minPrice = indicatedPriceRangeLow || 15, widened by the order book
minPrice_svc(a) ==
    IF Len(a.orderBook) > 0
    THEN Sub(minOverBook_svc(OrElse(a.indicatedPriceRangeLow, I(15)), a.orderBook), I(3))
    ELSE OrElse(a.indicatedPriceRangeLow, I(15))

\* let maxPrice = indicatedPriceRangeHigh || 30, widened by the order book
maxPrice_svc(a) ==
    IF Len(a.orderBook) > 0
    THEN Add(maxOverBook_svc(OrElse(a.indicatedPriceRangeHigh, I(30)), a.orderBook), I(3))
    ELSE OrElse(a.indicatedPriceRangeHigh, I(30))

\* for (let p = minPrice; p <= maxPrice; p += 1) if (p > 0) pricePoints.push(p)
RECURSIVE pricePoints_svc(_, _)
pricePoints_svc(p, maxPrice) ==
    IF Le(p, maxPrice)
    THEN (IF Gt(p, Zero) THEN <<p>> ELSE <<>>) \o pricePoints_svc(Add(p, One), maxPrice)
    ELSE <<>>

\* [...orderBook].sort((a, b) => b.priceLevel - a.priceLevel): stable, descending
RECURSIVE insertTier_svc(_, _)
insertTier_svc(sorted, e) ==
    IF sorted = <<>> THEN <<e>>
    ELSE IF Gt(e.priceLevel, Head(sorted).priceLevel) THEN <<e>> \o sorted
    ELSE <<Head(sorted)>> \o insertTier_svc(Tail(sorted), e)

RECURSIVE sortedOrderBook_svc(_)
sortedOrderBook_svc(book) ==
    IF book = <<>> THEN <<>>
    ELSE insertTier_svc(sortedOrderBook_svc(SubSeq(book, 1, Len(book) - 1)), book[Len(book)])

\* sectorMedianFirstDayPop ?? sectorAverageFirstDayPop ?? historicalFirstDayPop ?? 0
baseExpectedReturn_svc(a) ==
    Coalesce(a.sectorMedianFirstDayPop,
             Coalesce(a.sectorAverageFirstDayPop, Coalesce(a.historicalFirstDayPop, Zero)))

isPreRevenue_svc(a) == StrictEq(a.ntmRevenue, Zero) \/ Lt(a.ntmRevenue, One)

\* the loop over the tiers: <<oversubscription, orderBookTier>> of the first tier
\* at or below the offer price; matched holds the tiers the loop would accept
firstTier_svc(matched) ==
    IF matched = <<>> THEN <<One, <<>> >>
    ELSE <<Head(matched).oversubscription, <<"$", Head(matched).priceLevel, "+">> >>

\* if (oversubscription === 1) { extrapolate from the lowest tier }
belowLowestTier_svc(sorted, offerPrice, found) ==
    IF StrictEq(found[1], One)
    THEN <<MathRound(Mul(sorted[Len(sorted)].oversubscription,
                         Add(One, Mul(Sub(sorted[Len(sorted)].priceLevel, offerPrice),
                                      Q(5, 100))))),
           <<"<$", sorted[Len(sorted)].priceLevel>> >>
    ELSE found

\* the order-book lookup of one row: <<oversubscription, orderBookTier>>
orderBookLookup_svc(sorted, offerPrice) ==
    IF sorted = <<>> THEN <<One, <<>> >>
    ELSE belowLowestTier_svc(sorted, offerPrice,
             firstTier_svc(SelectSeq(sorted, LAMBDA e : Ge(offerPrice, e.priceLevel))))

bookQualityAdjustment_svc(oversubscription) ==
    IF Lt(oversubscription, I(5)) THEN Mul(Sub(I(5), oversubscription), Q(-3, 100))
    ELSE IF Gt(oversubscription, I(20))
    THEN MathMin(Q(10, 100), Mul(Sub(oversubscription, I(20)), Q(5, 1000)))
    ELSE Zero

valuationPenalty_svc(fairValueSupport) ==
    IF Gt(fairValueSupport, One) THEN Mul(Sub(fairValueSupport, One), Q(-15, 100))
    ELSE Zero

secondaryDiscount_svc(a) ==
    IF Gt(Default(a.secondarySharesOffered, Zero), Zero)
    THEN IF a.secondaryOptics = "negative"
         THEN Add(Q(3, 100),
                  Mul(Div(Default(a.secondarySharesOffered, Zero),
                          totalSharesForProceeds_svc(a)), Q(5, 100)))
         ELSE Mul(Div(Default(a.secondarySharesOffered, Zero),
                      totalSharesForProceeds_svc(a)), Q(2, 100))
    ELSE Zero

catalystDiscount_svc(a) ==
    IF a.hasBinaryCatalyst
    THEN IF Lt(Default(a.monthsToCatalyst, I(12)), I(6)) THEN Q(10, 100)
         ELSE IF Lt(Default(a.monthsToCatalyst, I(12)), I(12)) THEN Q(5, 100)
         ELSE Zero
    ELSE Zero

\* gross proceeds, market cap and post-IPO cash of a row
capitalisation_svc(a, offerPrice) ==
    [ offerPrice |-> offerPrice,
      fdSharesPostIPO |-> fdSharesPostIPO_svc(a),
      grossProceedsM |-> Mul(offerPrice, totalSharesForProceeds_svc(a)),
      marketCapM |-> Mul(fdSharesPostIPO_svc(a), offerPrice),
      postIPOCashM |->
          Add(Default(a.currentCash, Zero),
              Mul(offerPrice, Add(a.primarySharesOffered, actualGreenshoeShares_svc(a)))) ]

\* Enterprise Value = Market Cap - Post-IPO Cash
withEnterpriseValue_svc(a, r) ==
    r @@ [ enterpriseValueM |-> Sub(r.marketCapM, r.postIPOCashM),
           fairValueSupport |-> Div(r.offerPrice, a.fairValuePerShare) ]

withMultiples_svc(a, r) ==
    r @@ [ ntmEVRevenue |-> IF isPreRevenue_svc(a) THEN PosInf
                            ELSE Div(r.enterpriseValueM, a.ntmRevenue),
           evRaNPV |-> IF Gt(Default(a.totalRaNPV, Zero), Zero)
                       THEN Div(r.enterpriseValueM, Default(a.totalRaNPV, Zero))
                       ELSE Zero ]

withPeerComparison_svc(a, r) ==
    r @@ [ vsPeerMedianRevenue |->
               IF isPreRevenue_svc(a) THEN PosInf
               ELSE Div(Sub(r.ntmEVRevenue, a.peerMedianEVRevenue), a.peerMedianEVRevenue),
           vsPeerMedianRaNPV |->
               IF Gt(Default(a.totalRaNPV, Zero), Zero)
                  /\ Gt(Default(a.peerMedianEVRaNPV, Zero), Zero)
               THEN Div(Sub(r.evRaNPV, Default(a.peerMedianEVRaNPV, Zero)),
                        Default(a.peerMedianEVRaNPV, Zero))
               ELSE Zero ]

withPopTerms_svc(a, r, lookup) ==
    r @@ [ oversubscription |-> lookup[1],
           orderBookTier |-> lookup[2],
           baseImpliedPop |-> baseExpectedReturn_svc(a),
           bookQualityAdjustment |-> bookQualityAdjustment_svc(lookup[1]),
           valuationPenalty |-> valuationPenalty_svc(r.fairValueSupport),
           secondaryDiscount |-> secondaryDiscount_svc(a),
           catalystDiscount |-> catalystDiscount_svc(a),
           founderOwnershipPost |->
               Mul(a.foundersEmployeesOwnership,
                   Div(a.sharesOutstandingPreIPO, r.fdSharesPostIPO)) ]

withAdjustedImpliedPop_svc(r) ==
    r @@ [ adjustedImpliedPop |->
               Sub(Sub(Add(Add(r.baseImpliedPop, r.bookQualityAdjustment),
                           r.valuationPenalty),
                       r.secondaryDiscount), r.catalystDiscount) ]

\* the warnings of a row, by their leading words
withWarnings_svc(r) ==
    r @@ [ warnings |->
             (IF Gt(r.fairValueSupport, I(2)) THEN <<"WARNING: % of fair value">> ELSE <<>>)
             \o (IF Lt(r.oversubscription, I(3))
                 THEN <<"WARNING: Weak book coverage">> ELSE <<>>)
             \o (IF Lt(r.adjustedImpliedPop, Q(-20, 100))
                 THEN <<"WARNING: High probability of negative Day-1 return">>
                 ELSE <<>>) ]

valuedRow_svc(a, offerPrice) ==
    withPeerComparison_svc(a,
        withMultiples_svc(a, withEnterpriseValue_svc(a, capitalisation_svc(a, offerPrice))))

\* pricePoints.map(offerPrice => { ... })
PricingRow_svc(a, sorted, offerPrice) ==
    withWarnings_svc(
        withAdjustedImpliedPop_svc(
            withPopTerms_svc(a, valuedRow_svc(a, offerPrice),
                             orderBookLookup_svc(sorted, offerPrice))))

rowsAt_svc(a, sorted, pricePoints) ==
    [i \in 1..Len(pricePoints) |-> PricingRow_svc(a, sorted, pricePoints[i])]

pricingMatrix_svc(a) ==
    rowsAt_svc(a, sortedOrderBook_svc(a.orderBook),
               pricePoints_svc(minPrice_svc(a), maxPrice_svc(a)))

\* pricingMatrix.find(r => r.offerPrice === price), NoRow when there is none
findRow_svc(matrix, price) ==
    IF FindRow(matrix, price) = 0 THEN NoRow ELSE matrix[FindRow(matrix, price)]

\* for (const row of sortedByPrice) if (accepted) { take it; break }: accepted holds
\* the rows the loop would take, highest price first; sel is <<price, row>>
firstAccepted_svc(accepted, sel) ==
    IF accepted = <<>> THEN sel ELSE <<Head(accepted).offerPrice, Head(accepted)>>

coveredFiveTimes_svc(row) == Ge(row.oversubscription, I(5))
acceptedAtMaximum_svc(row) == Ge(row.oversubscription, I(3))
acceptedAtConservative_svc(row) ==
    Ge(row.oversubscription, I(10)) /\ Ge(row.adjustedImpliedPop, Q(10, 100))
acceptedAtModerate_svc(row) ==
    Ge(row.oversubscription, I(5)) /\ Ge(row.adjustedImpliedPop, Zero)

\* if (recommendedPrice > midpoint) recommendedPrice = Math.floor(midpoint)
capAtMidpoint_svc(matrix, sel, midpoint) ==
    IF Gt(sel[1], midpoint)
    THEN <<MathFloor(midpoint), findRow_svc(matrix, MathFloor(midpoint))>>
    ELSE sel

\* if (minAcceptablePrice && recommendedPrice < minAcceptablePrice)
respectMinAcceptablePrice_svc(a, matrix, sel) ==
    IF Truthy(a.minAcceptablePrice) /\ Lt(sel[1], a.minAcceptablePrice)
    THEN <<a.minAcceptablePrice, findRow_svc(matrix, a.minAcceptablePrice)>>
    ELSE sel

\* the branch for managementPriority "runway_extension" and a weak book at the top
runwayExtension_svc(a, matrix, sel) ==
    respectMinAcceptablePrice_svc(a, matrix,
        capAtMidpoint_svc(matrix,
            firstAccepted_svc(SelectSeq(sortedByPrice(matrix), coveredFiveTimes_svc), sel),
            Div(Add(a.indicatedPriceRangeLow, a.indicatedPriceRangeHigh), I(2))))

\* topOfRangeRow?.oversubscription || 0
topOfRangeOversubscription_svc(topOfRangeRow) ==
    IF topOfRangeRow = NoRow THEN Zero ELSE OrElse(topOfRangeRow.oversubscription, Zero)

weakBookAtTop_svc(a, matrix) ==
    a.managementPriority = "runway_extension"
    /\ Lt(topOfRangeOversubscription_svc(findRow_svc(matrix, a.indicatedPriceRangeHigh)),
          I(5))

\* RECOMMENDATION LOGIC up to the fallback: <<recommendedPrice, recommendedRow>>
selectByPolicy_svc(a, matrix, sel) ==
    IF weakBookAtTop_svc(a, matrix) THEN runwayExtension_svc(a, matrix, sel)
    ELSE IF a.pricingAggressiveness = "maximum"
    THEN firstAccepted_svc(SelectSeq(sortedByPrice(matrix), acceptedAtMaximum_svc), sel)
    ELSE IF a.pricingAggressiveness = "conservative"
    THEN firstAccepted_svc(SelectSeq(sortedByPrice(matrix), acceptedAtConservative_svc),
                           sel)
    ELSE firstAccepted_svc(SelectSeq(sortedByPrice(matrix), acceptedAtModerate_svc), sel)

\* the entries of warnings and rationale are modelled by their leading words
warnings_svc(a, matrix, row) ==
    (IF weakBookAtTop_svc(a, matrix)
     THEN <<"CEO priority is runway extension with weak book at top of range">>
     ELSE <<>>)
    \o row.warnings

rationale_svc(a, row) ==
    <<"valuation multiple", "Book coverage", "Expected Day-1 return">>
    \o (IF Gt(MathAbs(row.bookQualityAdjustment), Q(2, 100))
        THEN <<"Book quality adjustment">> ELSE <<>>)
    \o (IF Gt(MathAbs(row.valuationPenalty), Q(2, 100))
        THEN <<"Valuation penalty">> ELSE <<>>)
    \o (IF Gt(row.secondaryDiscount, Q(1, 100))
        THEN <<"Secondary selling discount">> ELSE <<>>)
    \o (IF Gt(row.catalystDiscount, Q(1, 100))
        THEN <<"Binary catalyst risk discount">> ELSE <<>>)
    \o (IF a.managementPriority = "runway_extension"
        THEN <<"CEO priority">>
             \o (IF a.ceoGuidance # "" THEN <<"CEO guidance">> ELSE <<>>)
        ELSE <<>>)
    \o <<"Founders retain", "Gross proceeds">>

\* formatIPOMemo: the row the memo is written from, or the error text
memoText_svc(matrix, recommendedPrice) ==
    IF \E i \in 1..Len(matrix) :
          Lt(MathAbs(Sub(matrix[i].offerPrice, recommendedPrice)), Q(1, 2))
    THEN "memo"
    ELSE "Error: Could not find recommended row"

\* the analysis the function returns for the row it recommends
returned_svc(a, matrix, recommendedRow) ==
    [ threw |-> FALSE,
      assumptions |-> a,
      pricingMatrix |-> matrix,
      recommendedRangeLow |->
          MathMax(OrElse(a.minAcceptablePrice, Sub(recommendedRow.offerPrice, I(2))),
                  Sub(recommendedRow.offerPrice, I(2))),
      recommendedRangeHigh |-> Add(recommendedRow.offerPrice, One),
      recommendedPrice |-> recommendedRow.offerPrice,
      rationale |-> rationale_svc(a, recommendedRow),
      warnings |-> warnings_svc(a, matrix, recommendedRow),
      memoText |-> memoText_svc(matrix, recommendedRow.offerPrice) ]

\* if (!recommendedRow) { find(...) || pricingMatrix[floor(length / 2)] }; reading
\* .offerPrice of the undefined middle row of an empty matrix is a TypeError
fallback_svc(a, matrix, sel) ==
    IF sel[2] # NoRow THEN returned_svc(a, matrix, sel[2])
    ELSE IF findRow_svc(matrix, sel[1]) # NoRow
    THEN returned_svc(a, matrix, findRow_svc(matrix, sel[1]))
    ELSE IF matrix = <<>> THEN [threw |-> TRUE]
    ELSE returned_svc(a, matrix, matrix[(Len(matrix) \div 2) + 1])

\* let recommendedPrice = indicatedPriceRangeLow || pricingMatrix[floor(len / 2)].offerPrice
recommend_svc(a, matrix) ==
    IF ~Truthy(a.indicatedPriceRangeLow) /\ matrix = <<>> THEN [threw |-> TRUE]
    ELSE fallback_svc(a, matrix,
             selectByPolicy_svc(a, matrix,
                 <<OrElse(a.indicatedPriceRangeLow,
                          IF matrix = <<>> THEN Undefined
                          ELSE matrix[(Len(matrix) \div 2) + 1].offerPrice), NoRow>>))

calculateIPOPricing_svc(a) == recommend_svc(a, pricingMatrix_svc(a))

-----------------------------------------------------------------------------
(* Inputs of src/unnamed/part_001 *)

\* widest filed range, in whole dollars, of the inputs explored
MaxRangeWidth == 2

Assumptions_p001(lo, hi) ==
    [ sector |-> "tech",
      sharesOutstandingPreIPO |-> I(100),
      primarySharesOffered |-> I(10),
      secondarySharesOffered |-> Undefined,
      greenshoeShares |-> Undefined,
      greenshoePercent |-> Undefined,
      primaryDollarRaiseM |-> Undefined,
      secondaryDollarRaiseM |-> Undefined,
      indicatedPriceRangeLow |-> lo,
      indicatedPriceRangeHigh |-> hi,
      currentCash |-> Undefined,
      currentDebt |-> Undefined,
      ntmRevenue |-> I(50),
      fairValuePerShare |-> I(20),
      totalRaNPV |-> Undefined,
      peerMedianEVRevenue |-> I(5),
      peerMedianEVRaNPV |-> Undefined,
      growthRates |-> [fy2024to2025Growth |-> Undefined, fy2025to2026Growth |-> Undefined],
      orderBook |-> <<>>,
      notableOrders |-> <<>>,
      sectorMedianFirstDayPop |-> Undefined,
      sectorAverageFirstDayPop |-> Q(1, 10),
      historicalFirstDayPop |-> Undefined,
      hasBinaryCatalyst |-> FALSE,
      monthsToCatalyst |-> Undefined,
      secondaryOptics |-> "neutral",
      lastPrivateRoundPrice |-> Undefined,
      downRoundOptics |-> FALSE,
      downRoundIpoPenalty |-> Undefined,
      dualClass |-> FALSE,
      dualClassDiscount |-> Undefined,
      customerConcentrationTop5 |-> Undefined,
      foundersEmployeesOwnership |-> Q(1, 2),
      pricingAggressiveness |-> "moderate",
      managementPriority |-> "none",
      minAcceptablePrice |-> Undefined,
      ceoGuidance |-> "" ]

RangeLows_p001 == {I(10), I(19), Q(21, 2)}

\* ranges the engine prices
ValidRanges_p001 ==
    {<<lo, Add(lo, I(w))>> : lo \in RangeLows_p001, w \in 1..MaxRangeWidth}
    \cup {<<I(10), Q(23, 2)>>}

\* ranges that are missing, not positive, or not correctly ordered
InvalidRanges_p001 ==
    { <<Undefined, Undefined>>, <<Undefined, I(12)>>, <<I(10), Undefined>>,
      <<Zero, I(12)>>, <<I(10), Zero>>, <<I(-1), I(12)>>, <<I(-3), I(-1)>>,
      <<NaN, I(12)>>, <<I(10), I(10)>>, <<I(12), I(10)>>, <<Q(21, 2), I(10)>> }

Ranges_p001 == ValidRanges_p001 \cup InvalidRanges_p001

\* share-denominated and dollar-denominated offerings
Offerings_p001 ==
    { [primary |-> p, secondary |-> s, greenshoe |-> g, pct |-> c,
       dollars |-> Undefined, secondaryDollars |-> Undefined] :
        p \in {Undefined, Zero, I(10)}, s \in {Undefined, I(5)},
        g \in {Undefined, I(2)}, c \in {Undefined, Q(3, 20)} }
    \cup
    { [primary |-> p, secondary |-> Undefined, greenshoe |-> Undefined, pct |-> c,
       dollars |-> I(200), secondaryDollars |-> s] :
        p \in {Undefined, I(10)}, s \in {Undefined, I(50)}, c \in {Undefined, Zero, Q(3, 20)} }

WithOffering_p001(a, o) ==
    [a EXCEPT !.primarySharesOffered = o.primary,
              !.secondarySharesOffered = o.secondary,
              !.greenshoeShares = o.greenshoe,
              !.greenshoePercent = o.pct,
              !.primaryDollarRaiseM = o.dollars,
              !.secondaryDollarRaiseM = o.secondaryDollars]

Policies_p001 ==
    { [aggr |-> g, prio |-> m, minPrice |-> f] :
        g \in {"conservative", "moderate", "aggressive", "maximum"},
        m \in {"none", "valuation_maximization", "runway_extension", "deal_certainty"},
        f \in {Undefined, I(11), Q(41, 2), I(40)} }

Tier(priceLevel, oversubscription) ==
    [priceLevel |-> priceLevel, oversubscription |-> oversubscription]

OrderBooks_p001 ==
    { <<>>,
      << Tier(I(22), I(3)), Tier(I(20), I(6)), Tier(I(18), I(12)) >>,
      << Tier(I(20), I(1)), Tier(I(21), Q(1, 2)) >> }

\* order books for the prices 26..28: tiers above and below them, two tiers at one level
BooksAroundTheRange_p001 ==
    { << Tier(I(30), I(5)), Tier(I(25), I(10)) >>,
      << Tier(I(27), I(4)), Tier(I(27), I(8)), Tier(I(30), I(2)) >>,
      \* a book that is thin at the bottom of the range and deep above it
      << Tier(I(26), I(1)), Tier(I(27), I(12)) >> }

LastRounds_p001 == {Undefined, Zero, I(25), I(32), I(40)}

NotableOrders_p001 ==
    { <<>>,
      << [investorName |-> "Fund A", maxPrice |-> I(19), indicatedSizeM |-> I(100)],
         [investorName |-> "Fund B", maxPrice |-> Undefined, indicatedSizeM |-> I(50)] >> }

\* last private round, governance, growth trajectory and customer concentration
RiskFactors_p001 ==
    { [lastRound |-> l[1], optics |-> l[2], penalty |-> l[3], dualClass |-> d[1],
       dualClassDiscount |-> d[2], growth |-> g, top5 |-> c] :
        l \in {<<Undefined, FALSE, Undefined>>, <<I(25), TRUE, Q(1, 2)>>},
        d \in {<<FALSE, Undefined>>, <<TRUE, Q(1, 20)>>},
        g \in {[fy2024to2025Growth |-> Undefined, fy2025to2026Growth |-> Undefined],
               [fy2024to2025Growth |-> Q(1, 2), fy2025to2026Growth |-> Q(1, 4)]},
        c \in {Undefined, Q(3, 5)} }

\* an order larger than the covered book, and an order with a maxPrice of 0
LargeAndZeroOrders_p001 ==
    { << [investorName |-> "Fund A", maxPrice |-> I(19), indicatedSizeM |-> I(500)] >>,
      << [investorName |-> "Fund Z", maxPrice |-> Zero, indicatedSizeM |-> I(100)],
         [investorName |-> "Fund A", maxPrice |-> I(19), indicatedSizeM |-> I(100)] >> }

\* the catalyst flag and the months to the catalyst, each present and absent
Catalysts_p001 ==
    {<<FALSE, Undefined>>, <<FALSE, I(4)>>, <<TRUE, Undefined>>, <<TRUE, Zero>>, <<TRUE, I(4)>>}

Inputs_p001 ==
    \* every range, under every policy
    { [Assumptions_p001(r[1], r[2]) EXCEPT !.pricingAggressiveness = p.aggr,
                                           !.managementPriority = p.prio,
                                           !.minAcceptablePrice = p.minPrice,
                                           !.primaryDollarRaiseM = d] :
        r \in Ranges_p001, p \in Policies_p001, d \in {Undefined, I(200)} }
    \cup
    \* every offering, pre-IPO share count and balance sheet
    { [WithOffering_p001(Assumptions_p001(r[1], r[2]), o)
         EXCEPT !.sharesOutstandingPreIPO = pre, !.currentCash = c[1], !.currentDebt = c[2]] :
        r \in ValidRanges_p001 \cup {<<I(12), I(10)>>, <<Undefined, I(12)>>},
        o \in Offerings_p001, pre \in {Zero, I(100)},
        c \in {<<Undefined, Undefined>>, <<I(30), I(20)>>, <<Zero, I(20)>>} }
    \cup
    \* order books, notable orders and risk factors
    { [Assumptions_p001(I(19), I(21))
         EXCEPT !.orderBook = b, !.notableOrders = n,
                !.lastPrivateRoundPrice = f.lastRound, !.downRoundOptics = f.optics,
                !.downRoundIpoPenalty = f.penalty, !.dualClass = f.dualClass,
                !.dualClassDiscount = f.dualClassDiscount, !.growthRates = f.growth,
                !.customerConcentrationTop5 = f.top5,
                !.pricingAggressiveness = g,
                !.sectorAverageFirstDayPop = s] :
        b \in OrderBooks_p001, n \in NotableOrders_p001, f \in RiskFactors_p001,
        g \in {"moderate", "maximum"}, s \in {Undefined, Q(1, 10)} }
    \cup
    \* secondary sales, catalysts and valuation on risk-adjusted NPV
    { [Assumptions_p001(I(19), I(21))
         EXCEPT !.orderBook = b,
                !.secondarySharesOffered = s[1], !.secondaryOptics = s[2],
                !.hasBinaryCatalyst = c[1], !.monthsToCatalyst = c[2],
                !.sector = v[1], !.ntmRevenue = v[2], !.totalRaNPV = v[3],
                !.peerMedianEVRaNPV = v[4], !.sectorAverageFirstDayPop = p] :
        b \in OrderBooks_p001,
        s \in {<<Undefined, "neutral">>, <<I(5), "neutral">>, <<I(5), "negative">>},
        c \in Catalysts_p001, p \in {Undefined, Q(1, 10)},
        v \in {<<"tech", I(50), Undefined, Undefined>>,
               <<"biotech", Zero, I(500), Q(12, 5)>>} }
    \cup
    \* a range that lies between the tiers of the order book
    { [Assumptions_p001(I(26), I(28)) EXCEPT !.orderBook = b, !.pricingAggressiveness = g] :
        b \in BooksAroundTheRange_p001, g \in {"moderate", "conservative"} }
    \cup
    \* last private rounds above, inside and below the range 31..33
    { [Assumptions_p001(I(31), I(33)) EXCEPT !.lastPrivateRoundPrice = l,
                                             !.downRoundOptics = o,
                                             !.downRoundIpoPenalty = p] :
        l \in LastRounds_p001, o \in BOOLEAN, p \in {Undefined, Q(1, 2)} }
    \cup
    \* orders that drop from a thin book and from an offering that raises nothing
    { [Assumptions_p001(I(19), I(21)) EXCEPT !.orderBook = b, !.notableOrders = n,
                                             !.primarySharesOffered = p] :
        b \in {<<>>, << Tier(I(20), I(1)), Tier(I(21), Q(1, 2)) >>},
        n \in LargeAndZeroOrders_p001, p \in {Zero, I(10)} }

-----------------------------------------------------------------------------
(* Inputs of src/unnamed/part_000 *)

Holder(name, type, shares, votingMultiple, secondarySalePercent) ==
    [ name |-> name, type |-> type, shares |-> shares,
      votingMultiple |-> votingMultiple, secondarySalePercent |-> secondarySalePercent ]

\* capital structures of 100M pre-IPO shares; the holders' shares add up to the total
Breakdowns_p000 ==
    { << Holder("Founder", "founder", I(60), I(10), Undefined),
         Holder("Fund", "investor", I(40), Undefined, Undefined) >>,
      << Holder("Founder", "founder", I(60), I(10), Q(1, 10)),
         Holder("Fund", "investor", I(40), Undefined, Q(2, 5)) >>,
      << Holder("Founder", "founder", I(50), Undefined, Undefined),
         Holder("Fund", "investor", I(30), I(2), Zero),
         Holder("Pool", "option_pool", I(20), Undefined, Undefined) >> }
    \cup
    { << Holder("Founder", "founder", I(80), I(10), Undefined),
         Holder("Fund", "investor", I(20), Undefined, f) >> :
        f \in {Q(2, 5), One, Q(3, 2)} }

Assumptions_p000 ==
    [ companyType |-> "mature",
      preIPOShares |-> [total |-> I(100), breakdown |-> <<>>],
      currentRevenue |-> I(100),
      revenueGrowthRates |-> <<Q(1, 4)>>,
      currentEBITDA |-> I(20),
      ebitdaMargin |-> Q(1, 5),
      targetEbitdaMargin |-> Q(1, 5),
      currentCash |-> Zero,
      currentDebt |-> I(20),
      taxRate |-> Q(1, 4),
      wacc |-> Q(1, 4),
      terminalGrowthRate |-> Zero,
      primaryRaiseAmount |-> I(50),
      secondarySaleShares |-> Zero,
      greenshoePercent |-> Q(3, 20),
      debtRepaymentAmount |-> Undefined,
      comparables |-> <<>>,
      dualClassShares |-> FALSE,
      founderControlMinimum |-> Undefined,
      pipelineAssets |-> <<>>,
      ipoDiscountPercent |-> Q(1, 5),
      projectionYears |-> 1 ]

Peers_p000 ==
    << [evRevenue |-> Q(1, 4), evEbitda |-> I(1)],
       [evRevenue |-> Q(1, 2), evEbitda |-> Undefined],
       [evRevenue |-> Q(1, 5), evEbitda |-> I(2)] >>

\* a pipeline asset launched in the year after the first invocation (year 0); its
\* peak sales (about $3367M) make the risk-adjusted NPV at wacc = 1 and taxRate = 1/4
\* a whole number: 110 one year before launch, 220 in the launch year
Pipeline_p000 ==
    << [name |-> "Asset-1", probabilityOfSuccess |-> Q(1, 2),
        peakSales |-> Q(1081344000, 321129), launchYear |-> 1] >>

\* company classifications with their valuation inputs
Valuations_p000 ==
    { [Assumptions_p000 EXCEPT !.companyType = t, !.comparables = c,
                               !.wacc = w[1], !.terminalGrowthRate = w[2]] :
        t \in {"mature", "industrial", "high-growth"},
        c \in {<<>>, Peers_p000},
        w \in {<<Q(1, 4), Zero>>, <<Q(1, 4), Q(1, 4)>>, <<Q(1, 4), Q(1, 2)>>} }
    \cup
    { [Assumptions_p000 EXCEPT !.companyType = "biotech", !.pipelineAssets = Pipeline_p000,
                               !.wacc = One, !.currentEBITDA = I(-5)],
      [Assumptions_p000 EXCEPT !.companyType = "biotech", !.comparables = Peers_p000],
      [Assumptions_p000 EXCEPT !.companyType = "biotech", !.currentRevenue = Zero],
      \* an enterprise value equal to the debt: the equity is worth nothing
      [Assumptions_p000 EXCEPT !.companyType = "biotech", !.currentRevenue = I(8)] }

Inputs_p000 ==
    \* every valuation, under every capital structure
    { [v EXCEPT !.preIPOShares.breakdown = b,
                !.secondarySaleShares = s,
                !.dualClassShares = d] :
        v \in Valuations_p000, b \in Breakdowns_p000, s \in {Zero, I(10)}, d \in BOOLEAN }
    \cup
    \* balance sheets and debt repayment
    { [v EXCEPT !.preIPOShares.breakdown = b,
                !.currentCash = c,
                !.debtRepaymentAmount = r] :
        v \in {Assumptions_p000,
               [Assumptions_p000 EXCEPT !.companyType = "biotech",
                                        !.comparables = Peers_p000]},
        b \in Breakdowns_p000, c \in {Zero, I(30)}, r \in {Undefined, I(10), I(30)} }
    \cup
    \* a pre-IPO share count that is zero or negative
    { [Assumptions_p000 EXCEPT !.preIPOShares.total = t, !.secondarySaleShares = s] :
        t \in {Zero, I(-100)}, s \in {Zero, I(10)} }

-----------------------------------------------------------------------------
(* Inputs of src/server/services/ipoPricingService.ts *)

Assumptions_svc(lo, hi) ==
    [ sector |-> "tech",
      sharesOutstandingPreIPO |-> I(100),
      primarySharesOffered |-> I(10),
      secondarySharesOffered |-> Undefined,
      greenshoeShares |-> Undefined,
      greenshoePercent |-> Q(3, 20),
      indicatedPriceRangeLow |-> lo,
      indicatedPriceRangeHigh |-> hi,
      currentCash |-> I(30),
      ntmRevenue |-> I(50),
      fairValuePerShare |-> I(20),
      totalRaNPV |-> Undefined,
      peerMedianEVRevenue |-> I(5),
      peerMedianEVRaNPV |-> Undefined,
      orderBook |-> <<>>,
      sectorMedianFirstDayPop |-> Undefined,
      sectorAverageFirstDayPop |-> Q(1, 10),
      historicalFirstDayPop |-> Q(1, 5),
      foundersEmployeesOwnership |-> Q(1, 2),
      pricingAggressiveness |-> "moderate",
      managementPriority |-> "none",
      minAcceptablePrice |-> Undefined,
      hasBinaryCatalyst |-> FALSE,
      monthsToCatalyst |-> Undefined,
      secondaryOptics |-> "neutral",
      ceoGuidance |-> "" ]

\* ranges a caller supplies in full and in order
ValidRanges_svc == {<<I(18), I(20)>>, <<I(19), I(22)>>, <<Q(37, 2), I(21)>>}

\* ranges that are missing, zero, or not correctly ordered
InvalidRanges_svc ==
    { <<Undefined, Undefined>>, <<Undefined, I(20)>>, <<I(18), Undefined>>,
      <<Zero, I(20)>>, <<I(18), Zero>>, <<I(20), I(20)>>, <<I(22), I(19)>> }

OrderBooks_svc ==
    { <<>>,
      << Tier(I(22), Q(16, 5)), Tier(I(20), I(6)), Tier(I(18), I(12)) >>,
      << Tier(I(19), I(8)), Tier(I(21), I(4)) >>,
      << Tier(I(19), I(1)), Tier(I(17), I(25)) >> }

Policies_svc ==
    { [aggr |-> g, prio |-> m, minPrice |-> f] :
        g \in {"conservative", "moderate", "maximum"},
        m \in {"none", "runway_extension"},
        f \in {Undefined, I(19), Q(41, 2)} }

Inputs_svc ==
    \* every range and order book, under every policy
    { [Assumptions_svc(r[1], r[2]) EXCEPT !.orderBook = b,
                                          !.pricingAggressiveness = p.aggr,
                                          !.managementPriority = p.prio,
                                          !.minAcceptablePrice = p.minPrice] :
        r \in ValidRanges_svc \cup InvalidRanges_svc, b \in OrderBooks_svc,
        p \in Policies_svc }
    \cup
    \* secondary sales, catalysts and sector benchmarks
    { [Assumptions_svc(I(18), I(20))
         EXCEPT !.orderBook = b,
                !.secondarySharesOffered = s[1], !.secondaryOptics = s[2],
                !.hasBinaryCatalyst = c[1], !.monthsToCatalyst = c[2],
                !.sectorMedianFirstDayPop = m] :
        b \in OrderBooks_svc,
        s \in {<<Undefined, "neutral">>, <<I(5), "neutral">>, <<I(5), "negative">>},
        c \in {<<FALSE, Undefined>>, <<TRUE, Undefined>>, <<TRUE, I(3)>>, <<TRUE, I(9)>>},
        m \in {Undefined, Q(-1, 25)} }
    \cup
    \* valuation on risk-adjusted NPV
    { [Assumptions_svc(I(18), I(20))
         EXCEPT !.orderBook = b, !.sector = "biotech", !.ntmRevenue = n,
                !.totalRaNPV = I(500), !.peerMedianEVRaNPV = Q(12, 5),
                !.greenshoeShares = g] :
        b \in OrderBooks_svc, n \in {Zero, I(50)}, g \in {Undefined, I(2)} }

-----------------------------------------------------------------------------
(* The state machine: an analysis starts with its assumptions object and   *)
(* invokes the engine on it, possibly more than once                        *)

NoResult == [none |-> TRUE]

\* how many times the calendar year changes while an analysis is repeated
MaxYearsElapsed == 1

Init_p001 ==
    /\ engine = "part_001"
    /\ input \in Inputs_p001
    /\ result = NoResult
    /\ prevResult = NoResult
    /\ year = 0

\* calculateIPOPricing(assumptions) of src/unnamed/part_001
Call_p001 ==
    /\ engine = "part_001"
    /\ result = NoResult
    /\ result' = calculateIPOPricing_p001(input)
    /\ input' = assumptionsAfterCall_p001(input, result')
    /\ UNCHANGED <<engine, prevResult, year>>

\* the same assumptions object is passed to the engine of part_001 again
Repeat_p001 ==
    /\ engine = "part_001"
    /\ result # NoResult
    /\ prevResult' = result
    /\ result' = calculateIPOPricing_p001(input)
    /\ input' = assumptionsAfterCall_p001(input, result')
    /\ UNCHANGED <<engine, year>>

\* the calendar year changes between two invocations; of the three engines only
\* that of part_000 reads the clock (new Date().getFullYear())
NewYear ==
    /\ engine = "part_000"
    /\ year < MaxYearsElapsed
    /\ year' = year + 1
    /\ UNCHANGED <<engine, input, result, prevResult>>

Next_p001 == Call_p001 \/ Repeat_p001

Spec_p001 == Init_p001 /\ [][Next_p001]_vars

Init_p000 ==
    /\ engine = "part_000"
    /\ input \in Inputs_p000
    /\ result = NoResult
    /\ prevResult = NoResult
    /\ year = 0

\* calculateIPOPricing(assumptions) of src/unnamed/part_000
Call_p000 ==
    /\ engine = "part_000"
    /\ result = NoResult
    /\ result' = calculateIPOPricing_p000(input, year)
    /\ input' = assumptionsAfterCall_p000(input)
    /\ UNCHANGED <<engine, prevResult, year>>

\* the same assumptions object is passed to the engine of part_000 again
Repeat_p000 ==
    /\ engine = "part_000"
    /\ result # NoResult
    /\ prevResult' = result
    /\ result' = calculateIPOPricing_p000(input, year)
    /\ input' = assumptionsAfterCall_p000(input)
    /\ UNCHANGED <<engine, year>>

Next_p000 == Call_p000 \/ Repeat_p000 \/ NewYear

Spec_p000 == Init_p000 /\ [][Next_p000]_vars

Init_svc ==
    /\ engine = "svc"
    /\ input \in Inputs_svc
    /\ result = NoResult
    /\ prevResult = NoResult
    /\ year = 0

\* calculateIPOPricing(assumptions) of src/server/services/ipoPricingService.ts
Call_svc ==
    /\ engine = "svc"
    /\ result = NoResult
    /\ result' = calculateIPOPricing_svc(input)
    /\ UNCHANGED <<engine, input, prevResult, year>>

\* the same assumptions object is passed to the engine of the service again
Repeat_svc ==
    /\ engine = "svc"
    /\ result # NoResult
    /\ prevResult' = result
    /\ result' = calculateIPOPricing_svc(input)
    /\ UNCHANGED <<engine, input, year>>

Next_svc == Call_svc \/ Repeat_svc

Spec_svc == Init_svc /\ [][Next_svc]_vars

\* the three engines together
Init == Init_p001 \/ Init_p000 \/ Init_svc

Next ==
    \/ Call_p001
    \/ Repeat_p001
    \/ Call_p000
    \/ Repeat_p000
    \/ Call_svc
    \/ Repeat_svc
    \/ NewYear

Spec == Init /\ [][Next]_vars

-----------------------------------------------------------------------------
(* Properties of src/unnamed/part_001 *)

Returned_p001 == engine = "part_001" /\ result # NoResult
Priced_p001 == Returned_p001 /\ result.pricingMatrix # <<>>

ErrorWarnings_p001 ==
    {"ERROR: Price range is REQUIRED", "ERROR: indicatedPriceRangeHigh must be greater"}

C1_RangeNotValid ==
    LET lo == input.indicatedPriceRangeLow
        hi == input.indicatedPriceRangeHigh
    IN  \/ IsUndefined(lo) \/ ~Gt(lo, Zero)
        \/ IsUndefined(hi) \/ ~Gt(hi, Zero)
        \/ Le(hi, lo)

\* C1: in part_001, a price range that is not valid and correctly ordered gives,
\* without an exception, the error result: empty pricingMatrix, recommendedPrice,
\* recommendedRangeLow and recommendedRangeHigh 0, empty rationale and exactly one
\* 'ERROR:' warning, whatever the other inputs are.
C1_InvalidRangeGivesErrorResult ==
    (Returned_p001 /\ C1_RangeNotValid) =>
        /\ ~result.threw
        /\ result.pricingMatrix = <<>>
        /\ result.recommendedPrice = Zero
        /\ result.recommendedRangeLow = Zero
        /\ result.recommendedRangeHigh = Zero
        /\ result.rationale = <<>>
        /\ Len(result.warnings) = 1
        /\ result.warnings[1] \in ErrorWarnings_p001

\* a zero-width range of a dollar-denominated runway-extension deal was refused
C1_Witness ==
    /\ Returned_p001
    /\ input.indicatedPriceRangeLow = I(10)
    /\ input.indicatedPriceRangeHigh = I(10)
    /\ input.managementPriority = "runway_extension"
    /\ input.primaryDollarRaiseM = I(200)
    /\ result.pricingMatrix = <<>>
    /\ result.warnings = <<"ERROR: indicatedPriceRangeHigh must be greater">>

C9_DollarDenominated ==
    ~IsUndefined(input.primaryDollarRaiseM) /\ Gt(input.primaryDollarRaiseM, Zero)

\* rows i and i+1 of the matrix, which the engine builds in increasing offerPrice
C9_Monotone(requirePositiveSale) ==
    \A i \in 1..(Len(result.pricingMatrix) - 1) :
        LET r == result.pricingMatrix[i]
            n == result.pricingMatrix[i + 1]
        IN  /\ Lt(r.offerPrice, n.offerPrice)
            /\ (requirePositiveSale =>
                    Gt(r.totalSharesSold, Zero) /\ Gt(n.totalSharesSold, Zero)) =>
                  IF C9_DollarDenominated
                  THEN /\ n.grossProceedsM = r.grossProceedsM
                       /\ Lt(n.sharesSoldPrimary, r.sharesSoldPrimary)
                       /\ Lt(n.totalSharesSold, r.totalSharesSold)
                  ELSE Lt(r.grossProceedsM, n.grossProceedsM)

\* C9 as stated: in part_001, across the rows in increasing offerPrice, a
\* share-denominated offering has strictly increasing grossProceedsM and a
\* dollar-denominated offering has the same grossProceedsM in every row with
\* strictly decreasing sharesSoldPrimary and totalSharesSold.
C9_AsStated == Priced_p001 => C9_Monotone(FALSE)

\* C9 amended: the same, for offerings that sell a positive number of shares
\* (totalSharesSold > 0 in the rows compared).
C9_MonotoneWhenSharesAreSold == Priced_p001 => C9_Monotone(TRUE)

\* a dollar-denominated raise with a secondary tranche priced over three rows
C9_Witness ==
    /\ Priced_p001
    /\ C9_DollarDenominated
    /\ input.secondaryDollarRaiseM = I(50)
    /\ Len(result.pricingMatrix) = 3
    /\ Gt(result.pricingMatrix[1].totalSharesSold, Zero)

C10_ScenarioA ==
    /\ input.sharesOutstandingPreIPO = I(100)
    /\ input.primaryDollarRaiseM = I(200)
    /\ ~Truthy(input.greenshoePercent)

\* C10: in part_001, for a dollar-denominated raise every row has
\* sharesSoldPrimary = primaryDollarRaiseM / offerPrice and dilutionPercent =
\* (primary + greenshoe) / (sharesOutstandingPreIPO + primary + greenshoe) from its
\* own price; 100M pre-IPO shares, a $200M raise, price 20 and no greenshoe give
\* 10M primary shares and dilution 10/110.
C10_DollarRaisePerRow ==
    (Priced_p001 /\ C9_DollarDenominated) =>
        \A i \in 1..Len(result.pricingMatrix) :
            LET r == result.pricingMatrix[i]
                newShares == Add(r.sharesSoldPrimary, r.sharesSoldGreenshoe)
            IN  /\ r.sharesSoldPrimary = Div(input.primaryDollarRaiseM, r.offerPrice)
                /\ r.dilutionPercent =
                       Div(newShares, Add(input.sharesOutstandingPreIPO, newShares))
                /\ (C10_ScenarioA /\ r.offerPrice = I(20)) =>
                       /\ r.sharesSoldPrimary = I(10)
                       /\ r.sharesSoldGreenshoe = Zero
                       /\ r.dilutionPercent = Q(10, 110)

\* scenario A was priced at 20
C10_Witness ==
    /\ Priced_p001
    /\ C10_ScenarioA
    /\ \E i \in 1..Len(result.pricingMatrix) :
          /\ result.pricingMatrix[i].offerPrice = I(20)
          /\ result.pricingMatrix[i].sharesSoldPrimary = I(10)


-----------------------------------------------------------------------------
(* Properties of src/server/services/ipoPricingService.ts *)

Called_svc == engine = "svc" /\ result # NoResult

\* indicatedPriceRangeLow or indicatedPriceRangeHigh absent or 0, or high <= low
C2_RangeMissingOrInvalid ==
    \/ ~Truthy(input.indicatedPriceRangeLow)
    \/ ~Truthy(input.indicatedPriceRangeHigh)
    \/ Le(input.indicatedPriceRangeHigh, input.indicatedPriceRangeLow)

\* C2: in ipoPricingService.ts, a missing or invalid price range makes
\* calculateIPOPricing refuse to price: it returns, without throwing, a result
\* with an empty pricingMatrix, and builds no price points from a range the
\* caller did not supply.
C2_RefusesToPrice ==
    (Called_svc /\ C2_RangeMissingOrInvalid) =>
        /\ ~result.threw
        /\ result.pricingMatrix = <<>>

-----------------------------------------------------------------------------
(* Properties of src/unnamed/part_000 *)

Called_p000 == engine = "part_000" /\ result # NoResult
Analysed_p000 == Called_p000 /\ ~result.threw

C3_RowsInRange_p001 ==
    Priced_p001 =>
        \A i \in 1..Len(result.pricingMatrix) :
            /\ Ge(result.pricingMatrix[i].dilutionPercent, Zero)
            /\ Lt(result.pricingMatrix[i].dilutionPercent, One)

C3_ScenariosInRange_p000 ==
    Analysed_p000 =>
        \A i \in 1..Len(result.pricingMatrix) :
            /\ Ge(result.pricingMatrix[i].dilution, Zero)
            /\ Lt(result.pricingMatrix[i].dilution, Hundred)

\* C3: dilution is at least 0% and strictly below 100% in every row of every
\* matrix: 0 <= dilutionPercent < 1 in every row part_001 returns for an input
\* that does not give the error result, and 0 <= dilution < 100 in every
\* Low/Mid/High scenario of part_000.
C3_DilutionInRange == C3_RowsInRange_p001 /\ C3_ScenariosInRange_p000

\* the shares of the holders of the breakdown add up to preIPOShares.total
C4_BreakdownAddsUp ==
    SumSeq([i \in 1..Len(input.preIPOShares.breakdown) |->
               input.preIPOShares.breakdown[i].shares]) = input.preIPOShares.total

\* C4: in part_000, the postIPOPercent values of the ownershipTable (the holders
\* and the public shareholders) sum to 100 within 0.5 percentage points whenever
\* the breakdown adds up to preIPOShares.total, with secondary shares from
\* per-holder secondarySalePercent and with a directly specified secondarySaleShares.
C4_OwnershipSumsTo100 ==
    (Analysed_p000 /\ C4_BreakdownAddsUp) =>
        Le(MathAbs(Sub(SumSeq([i \in 1..Len(result.ownershipTable) |->
                                  result.ownershipTable[i].postIPOPercent]),
                       Hundred)),
           Q(1, 2))

\* C5: in part_000, no holder sells more secondary shares (shares x
\* secondarySalePercent) than the holder owns before the IPO, so every holder
\* entry of the ownershipTable has postIPOShares >= 0.
C5_HoldersKeepNonNegativeShares ==
    Analysed_p000 =>
        \A i \in 1..Len(input.preIPOShares.breakdown) :
            /\ Le(holdersSecondarySale_p000(input.preIPOShares.breakdown[i]),
                  input.preIPOShares.breakdown[i].shares)
            /\ Ge(result.ownershipTable[i].postIPOShares, Zero)

\* the primary shares createScenario was given for row i: those at the row's price
C6_PrimaryShares(i) == Div(input.primaryRaiseAmount, result.pricingMatrix[i].offerPrice)

\* the post-IPO cash of scenario i: the cash, plus the proceeds of its own primary
\* and greenshoe shares at its own price net of the 7% discount, less the repayment
C6_ScenarioCash(i) ==
    Sub(Add(Add(input.currentCash,
                Mul(Mul(C6_PrimaryShares(i), result.pricingMatrix[i].offerPrice),
                    Q(93, 100))),
            Mul(Mul(Mul(Add(C6_PrimaryShares(i), result.secondarySharesSold),
                        input.greenshoePercent),
                    result.pricingMatrix[i].offerPrice),
                Q(93, 100))),
        Default(input.debtRepaymentAmount, Zero))

C6_Rows_p001 ==
    Priced_p001 =>
        \A i \in 1..Len(result.pricingMatrix) :
            result.pricingMatrix[i].enterpriseValueM =
                Sub(Add(result.pricingMatrix[i].marketCapM,
                        result.pricingMatrix[i].currentDebtM),
                    result.pricingMatrix[i].postIPOCashM)

C6_Analysis_p000 ==
    Analysed_p000 =>
        /\ result.postIPOEnterpriseValue =
               Sub(Add(result.marketCap, result.postIPODebt), result.postIPOCash)
        /\ \A i \in 1..Len(result.pricingMatrix) :
               result.pricingMatrix[i].enterpriseValue =
                   Sub(Add(result.pricingMatrix[i].marketCap, result.postIPODebt),
                       C6_ScenarioCash(i))

C7_Weight(holder) ==
    IF input.dualClassShares /\ Truthy(holder.votingMultiple)
    THEN holder.votingMultiple
    ELSE One

C7_Holders == 1..Len(input.preIPOShares.breakdown)

\* the public entry is the one appended after the holders
C7_Public == result.ownershipTable[Len(result.ownershipTable)]

\* the sum over the holders of post-IPO shares x weight, plus the public float
C7_Denominator ==
    Add(SumSeq([i \in C7_Holders |->
                   Mul(result.ownershipTable[i].postIPOShares,
                       C7_Weight(input.preIPOShares.breakdown[i]))]),
        C7_Public.postIPOShares)

\* every votingPercent is the entry's votes over the common denominator
C7_EachOverCommonDenominator ==
    /\ Len(result.ownershipTable) = Len(input.preIPOShares.breakdown) + 1
    /\ C7_Public.name = "Public Shareholders"
    /\ C7_Public.postIPOShares = result.publicFloat
    /\ \A i \in C7_Holders :
          result.ownershipTable[i].votingPercent =
              Mul(Div(Mul(result.ownershipTable[i].postIPOShares,
                          C7_Weight(input.preIPOShares.breakdown[i])),
                      C7_Denominator),
                  Hundred)
    /\ C7_Public.votingPercent = Mul(Div(C7_Public.postIPOShares, C7_Denominator), Hundred)

C7_VotingSum ==
    SumSeq([i \in 1..Len(result.ownershipTable) |-> result.ownershipTable[i].votingPercent])

\* C7 as stated: in part_000, every votingPercent of the ownershipTable is the
\* entry's post-IPO shares x its voting weight over one common denominator (the
\* sum over the holders of post-IPO shares x weight, plus the public float at
\* weight 1), the weight being the holder's votingMultiple only when
\* dualClassShares is set and the holder has one; the votingPercent values sum
\* to 100.
C7_AsStated ==
    Analysed_p000 => (C7_EachOverCommonDenominator /\ C7_VotingSum = Hundred)

\* C7, the part the code keeps: every votingPercent is over the common
\* denominator, and the values sum to 100 whenever that denominator is a finite
\* number other than zero (a fair value of zero makes it infinite).
C7_VotingPower ==
    Analysed_p000 =>
        /\ C7_EachOverCommonDenominator
        /\ (IsFinite(C7_Denominator) /\ C7_Denominator # Zero) => C7_VotingSum = Hundred

\* a dual-class company whose founder votes ten to one
C7_Witness ==
    /\ Analysed_p000
    /\ input.dualClassShares
    /\ input.preIPOShares.breakdown[1].votingMultiple = I(10)
    /\ Gt(result.ownershipTable[1].votingPercent, result.ownershipTable[1].postIPOPercent)
    /\ Gt(C7_Public.votingPercent, Zero)
    /\ C7_VotingSum = Hundred

\* C8: two invocations with identical inputs return identical pricing matrices
\* (every field of every row), independently of earlier invocations and of
\* anything outside the input, in part_001 and in part_000 for every company
\* type, 'biotech' with pipeline assets included.
C8_SameInputSameMatrix ==
    (engine \in {"part_001", "part_000"} /\ prevResult # NoResult
        /\ ~prevResult.threw /\ ~result.threw) =>
        result.pricingMatrix = prevResult.pricingMatrix

-----------------------------------------------------------------------------
(* Secondary sales of src/unnamed/part_000 *)

C11_Breakdown == input.preIPOShares.breakdown

\* shares x f for a holder with a fraction f, nothing for a holder without one
C11_Sold(holder) ==
    IF IsUndefined(holder.secondarySalePercent) THEN Zero
    ELSE Mul(holder.shares, holder.secondarySalePercent)

C11_SumOfHolders ==
    SumSeq([i \in 1..Len(C11_Breakdown) |-> C11_Sold(C11_Breakdown[i])])

C11_EachHolderKeepsTheRest ==
    \A i \in 1..Len(C11_Breakdown) :
        result.ownershipTable[i].postIPOShares =
            Sub(C11_Breakdown[i].shares, C11_Sold(C11_Breakdown[i]))

C11_AnyHolderSpecifiesAFraction ==
    \E i \in 1..Len(C11_Breakdown) : ~IsUndefined(C11_Breakdown[i].secondarySalePercent)

-----------------------------------------------------------------------------
(* Order book lookup of src/unnamed/part_001 *)

C12_Tiers == 1..Len(input.orderBook)

\* the supplied tiers at or below the price
C12_AtOrBelow(offerPrice) ==
    {t \in C12_Tiers : Le(input.orderBook[t].priceLevel, offerPrice)}

\* the row reads tier t: its oversubscription, and its price level in the label
C12_Reads(row, t, label) ==
    /\ row.oversubscription = input.orderBook[t].oversubscription
    /\ row.orderBookTier = label

C12_RowReadsOneTier(row) ==
    IF C12_AtOrBelow(row.offerPrice) # {}
    THEN \E t \in C12_AtOrBelow(row.offerPrice) :
            /\ \A u \in C12_AtOrBelow(row.offerPrice) :
                  Le(input.orderBook[u].priceLevel, input.orderBook[t].priceLevel)
            /\ C12_Reads(row, t, <<"$", input.orderBook[t].priceLevel, "+">>)
    ELSE \E t \in C12_Tiers :
            /\ \A u \in C12_Tiers :
                  Le(input.orderBook[t].priceLevel, input.orderBook[u].priceLevel)
            /\ C12_Reads(row, t, <<"Below $", input.orderBook[t].priceLevel>>)

\* C12: in part_001, with an order book supplied, every row's raw
\* oversubscription is the value of one supplied tier: a tier with the greatest
\* priceLevel at or below the offer price (the highest tier when the price
\* exceeds every tier), or the lowest tier when the price is below every tier;
\* it is never interpolated or extrapolated.
C12_OversubscriptionIsOneTier ==
    (Priced_p001 /\ input.orderBook # <<>>) =>
        \A i \in 1..Len(result.pricingMatrix) :
            C12_RowReadsOneTier(result.pricingMatrix[i])

\* tiers {30: 5x, 25: 10x}: the row at 27 reads tier '$25+' and 10x
C12_Witness ==
    /\ Priced_p001
    /\ input.orderBook = << Tier(I(30), I(5)), Tier(I(25), I(10)) >>
    /\ \E i \in 1..Len(result.pricingMatrix) :
          /\ result.pricingMatrix[i].offerPrice = I(27)
          /\ result.pricingMatrix[i].oversubscription = I(10)
          /\ result.pricingMatrix[i].orderBookTier = <<"$", I(25), "+">>

-----------------------------------------------------------------------------
(* Down-round detection of src/unnamed/part_001 *)

C13_LastRound == input.lastPrivateRoundPrice

C13_HasLastRound == ~IsUndefined(C13_LastRound) /\ Gt(C13_LastRound, Zero)

C13_Change(row) == Div(Sub(row.offerPrice, C13_LastRound), C13_LastRound)

\* the discount of a row: |downRoundPercent| x downRoundIpoPenalty (0 when the
\* penalty is not given) for a down-round with downRoundOptics set, 0 otherwise
C13_Discount(row) ==
    IF C13_HasLastRound /\ Lt(row.offerPrice, C13_LastRound) /\ input.downRoundOptics
    THEN Mul(MathAbs(C13_Change(row)), Default(input.downRoundIpoPenalty, Zero))
    ELSE Zero

\* C13: in part_001, for every row with a positive lastPrivateRoundPrice,
\* downRoundPercent = (offerPrice - lastPrivateRoundPrice) / lastPrivateRoundPrice
\* and isDownRound holds exactly when offerPrice < lastPrivateRoundPrice;
\* downRoundDiscount = |downRoundPercent| x downRoundIpoPenalty for a down-round
\* with downRoundOptics set, and 0 in every other case, including when
\* lastPrivateRoundPrice is absent.
C13_DownRound ==
    Priced_p001 =>
        \A i \in 1..Len(result.pricingMatrix) :
            LET row == result.pricingMatrix[i]
            IN  /\ C13_HasLastRound =>
                      /\ row.downRoundPercent = C13_Change(row)
                      /\ row.isDownRound <=> Lt(row.offerPrice, C13_LastRound)
                /\ row.downRoundDiscount = C13_Discount(row)

\* last round 40, offer 32: -20%, a down-round, discounted by 0.2 x 0.5
C13_Witness ==
    /\ Priced_p001
    /\ C13_LastRound = I(40)
    /\ input.downRoundOptics
    /\ input.downRoundIpoPenalty = Q(1, 2)
    /\ \E i \in 1..Len(result.pricingMatrix) :
          /\ result.pricingMatrix[i].offerPrice = I(32)
          /\ result.pricingMatrix[i].downRoundPercent = Q(-1, 5)
          /\ result.pricingMatrix[i].isDownRound
          /\ result.pricingMatrix[i].downRoundDiscount = Q(1, 10)

-----------------------------------------------------------------------------
(* Recommendation of src/unnamed/part_001 *)

\* the rows of the matrix priced at the recommended price
C14_RecommendedRows ==
    {i \in 1..Len(result.pricingMatrix) :
        result.pricingMatrix[i].offerPrice = result.recommendedPrice}

\* C14: in part_001, every result that is not the error result has a
\* recommendedPrice equal to the offerPrice of exactly one row of pricingMatrix,
\* the row whose figures feed the rationale, warnings and memo, for every
\* pricingAggressiveness, managementPriority and minAcceptablePrice; the memo is
\* never 'Error: Could not find recommended row'.
C14_RecommendedPriceIsARow ==
    Priced_p001 =>
        /\ Cardinality(C14_RecommendedRows) = 1
        /\ \A i \in C14_RecommendedRows :
              /\ result.rationale = rationale_p001(input, result.pricingMatrix[i])
              /\ result.warnings =
                    warnings_p001(input, result.recommendedPrice, result.pricingMatrix[i])
        /\ result.memoText # "Error: Could not find recommended row"

C15_IsHighestPrice(price) ==
    /\ \E i \in 1..Len(result.pricingMatrix) : result.pricingMatrix[i].offerPrice = price
    /\ \A i \in 1..Len(result.pricingMatrix) : Le(result.pricingMatrix[i].offerPrice, price)

\* C15: in part_001, when pricingAggressiveness is 'maximum' the recommended
\* price is the highest offerPrice present in the pricing matrix, with
\* managementPriority unset or any of its values, with and without a
\* minAcceptablePrice.
C15_MaximumIsHighestPrice ==
    (Priced_p001 /\ input.pricingAggressiveness = "maximum") =>
        C15_IsHighestPrice(result.recommendedPrice)

\* the same with no runway-extension priority and no minimum acceptable price in
\* force: what the 'maximum' branch itself selects
C15_MaximumBranchIsHighestPrice ==
    (Priced_p001 /\ input.pricingAggressiveness = "maximum"
       /\ input.managementPriority # "runway_extension"
       /\ ~Truthy(input.minAcceptablePrice)) =>
        C15_IsHighestPrice(result.recommendedPrice)

\* 'maximum' with runway extension and no minimum acceptable price
C15_RunwayExtensionFirst ==
    (Priced_p001 /\ input.pricingAggressiveness = "maximum"
       /\ input.managementPriority = "runway_extension"
       /\ ~Truthy(input.minAcceptablePrice)) =>
        C15_IsHighestPrice(result.recommendedPrice)

C16_Rows == 1..Len(result.pricingMatrix)

\* the coverage a row must reach; part_001 names no bar, the 'conservative'
\* policy of the service engine asks for 10x
C16_CoverageBar == I(10)

C16_MeetsTheBar == {i \in C16_Rows : Ge(result.pricingMatrix[i].oversubscription, C16_CoverageBar)}

\* price is the lowest offerPrice among the rows of the set
C16_IsLowestPriceOf(price, rows) ==
    /\ \E i \in rows : result.pricingMatrix[i].offerPrice = price
    /\ \A i \in rows : Le(price, result.pricingMatrix[i].offerPrice)

\* C16: in part_001, when pricingAggressiveness is 'conservative' the
\* recommended price is the lowest offerPrice whose row meets the minimum
\* coverage (oversubscription) bar, and the absolute lowest offerPrice of the
\* matrix when no row meets it.
C16_ConservativeIsLowestCovered ==
    (Priced_p001 /\ input.pricingAggressiveness = "conservative") =>
        IF C16_MeetsTheBar # {}
        THEN C16_IsLowestPriceOf(result.recommendedPrice, C16_MeetsTheBar)
        ELSE C16_IsLowestPriceOf(result.recommendedPrice, C16_Rows)

\* the same with no minimum acceptable price in force
C16_CoveredWithoutMinimum ==
    (Priced_p001 /\ input.pricingAggressiveness = "conservative"
       /\ ~Truthy(input.minAcceptablePrice)) =>
        IF C16_MeetsTheBar # {}
        THEN C16_IsLowestPriceOf(result.recommendedPrice, C16_MeetsTheBar)
        ELSE C16_IsLowestPriceOf(result.recommendedPrice, C16_Rows)

\* what the 'conservative' branch selects: the absolute lowest price, whatever
\* the coverage of the rows
C16_ConservativeBranchIsLowestPrice ==
    (Priced_p001 /\ input.pricingAggressiveness = "conservative"
       /\ ~Truthy(input.minAcceptablePrice)) =>
        C16_IsLowestPriceOf(result.recommendedPrice, C16_Rows)

C17_CertaintyPriorities == {"deal_certainty", "runway_extension"}

\* the moderate coverage a row must reach; part_001 names no bar, the
\* runway-extension policy of the service engine asks for 5x
C17_ModerateBar == I(5)

C17_Midpoint == Div(Add(input.indicatedPriceRangeLow, input.indicatedPriceRangeHigh), I(2))

\* rows at or below the midpoint of the range that meet the moderate bar
C17_Covered ==
    {i \in C16_Rows :
        /\ Ge(result.pricingMatrix[i].oversubscription, C17_ModerateBar)
        /\ Le(result.pricingMatrix[i].offerPrice, C17_Midpoint)}

C17_RaisedByMinimum ==
    Truthy(input.minAcceptablePrice) /\ result.recommendedPrice = input.minAcceptablePrice

C17_OtherPriority ==
    IF input.managementPriority = "deal_certainty" THEN "runway_extension"
    ELSE "deal_certainty"

\* C17: in part_001, with managementPriority 'deal_certainty' or
\* 'runway_extension', both treated the same way, the recommended price is the
\* lowest price whose row meets a moderate coverage bar, is not above the
\* midpoint of the range unless minAcceptablePrice raises it, and is never below
\* an explicit minAcceptablePrice.
C17_CertaintyPolicy ==
    (Priced_p001 /\ input.managementPriority \in C17_CertaintyPriorities) =>
        /\ result.recommendedPrice =
              calculateIPOPricing_p001(
                  [input EXCEPT !.managementPriority = C17_OtherPriority]).recommendedPrice
        /\ (C17_Covered # {} /\ ~C17_RaisedByMinimum) =>
              C16_IsLowestPriceOf(result.recommendedPrice, C17_Covered)
        /\ Le(result.recommendedPrice, C17_Midpoint) \/ C17_RaisedByMinimum
        /\ Truthy(input.minAcceptablePrice) =>
              Ge(result.recommendedPrice, input.minAcceptablePrice)

\* what the engine does for 'runway_extension': the row at minAcceptablePrice,
\* or at the bottom of the range, and never a price below minAcceptablePrice
C17_RunwayExtensionIsFloorOrLow ==
    (Priced_p001 /\ input.managementPriority = "runway_extension") =>
        /\ ~Truthy(input.minAcceptablePrice) =>
              C16_IsLowestPriceOf(result.recommendedPrice, C16_Rows)
        /\ Truthy(input.minAcceptablePrice) =>
              /\ Ge(result.recommendedPrice, input.minAcceptablePrice)
              /\ Ge(input.minAcceptablePrice, input.indicatedPriceRangeLow) =>
                    result.recommendedPrice = input.minAcceptablePrice

\* 'deal_certainty' is not read by the engine: the result is that of no priority
C17_DealCertaintyIsIgnored ==
    (Priced_p001 /\ input.managementPriority = "deal_certainty") =>
        result.recommendedPrice =
            calculateIPOPricing_p001(
                [input EXCEPT !.managementPriority = "none"]).recommendedPrice

C18_Distance(i) == MathAbs(Sub(result.pricingMatrix[i].offerPrice, C17_Midpoint))

\* the rows no other row is nearer to the midpoint than
C18_Nearest == {i \in C16_Rows : \A j \in C16_Rows : Le(C18_Distance(i), C18_Distance(j))}

\* a minimum acceptable price applies when it lies above every nearest row
C18_MinimumApplies ==
    /\ Truthy(input.minAcceptablePrice)
    /\ \A i \in C18_Nearest : Lt(result.pricingMatrix[i].offerPrice, input.minAcceptablePrice)

C18_MidpointPolicy ==
    /\ Priced_p001
    /\ input.pricingAggressiveness \notin {"maximum", "conservative"}
    /\ input.managementPriority # "runway_extension"
    /\ ~C18_MinimumApplies

\* C18: in part_001, when pricingAggressiveness is neither 'maximum' nor
\* 'conservative', managementPriority is not 'runway_extension' and no
\* minAcceptablePrice applies, the recommended price is the price of a row
\* whose distance to (indicatedPriceRangeLow + indicatedPriceRangeHigh) / 2 is
\* the least over all rows, for integer and non-integer range bounds alike.
C18_NearestToMidpoint ==
    C18_MidpointPolicy =>
        \E i \in C18_Nearest : result.pricingMatrix[i].offerPrice = result.recommendedPrice

C18_IsInteger(x) == MathFloor(x) = x

\* a range with non-integer bounds whose midpoint is a row, under the default policy
C18_Witness ==
    /\ C18_MidpointPolicy
    /\ ~C18_IsInteger(input.indicatedPriceRangeLow)
    /\ Len(result.pricingMatrix) = 3
    /\ result.recommendedPrice = C17_Midpoint
    /\ input.pricingAggressiveness = "aggressive"

\* a range with integer bounds and a midpoint between two rows
C18_WitnessBetweenRows ==
    /\ C18_MidpointPolicy
    /\ C18_IsInteger(input.indicatedPriceRangeLow)
    /\ Cardinality(C18_Nearest) = 2
    /\ result.recommendedPrice = MathRound(C17_Midpoint)

C19_NoBenchmark ==
    /\ IsUndefined(input.sectorMedianFirstDayPop)
    /\ IsUndefined(input.sectorAverageFirstDayPop)
    /\ IsUndefined(input.historicalFirstDayPop)

\* Math.log(x) is 0 exactly when x is 1
C19_LogIsZero(l) == l.lnOf = One

C19_CatalystTriggered ==
    /\ input.hasBinaryCatalyst
    /\ IsFinite(input.monthsToCatalyst)
    /\ Gt(input.monthsToCatalyst, Zero)

C19_TermsOfRowAreZeroUnlessTriggered(r) ==
    /\ C19_NoBenchmark =>
          /\ r.baseImpliedPop = Zero
          /\ C19_LogIsZero(r.bookQualityAdjustment)
          /\ r.valuationPenalty = Zero
          /\ r.secondaryDiscount = Zero
          /\ r.catalystDiscount = Zero
          /\ r.adjustedImpliedPop.rational = Zero
          /\ C19_LogIsZero(r.adjustedImpliedPop)
    /\ Len(input.orderBook) = 0 => C19_LogIsZero(r.bookQualityAdjustment)
    /\ Le(r.offerPrice, input.fairValuePerShare) => r.valuationPenalty = Zero
    /\ input.secondaryOptics # "negative" => r.secondaryDiscount = Zero
    /\ ~C19_CatalystTriggered => r.catalystDiscount = Zero
    /\ ~input.dualClass => r.dualClassDiscount = Zero
    /\ ~Gt(input.customerConcentrationTop5, Q(40, 100)) =>
          r.customerConcentrationDiscount = Zero

\* C19: in part_001 every return term of every row is zero unless its
\* triggering input is present: without a sector benchmark baseImpliedPop,
\* bookQualityAdjustment, valuationPenalty, secondaryDiscount, catalystDiscount
\* and adjustedImpliedPop are 0; bookQualityAdjustment is 0 without an order
\* book; valuationPenalty is 0 when the offer price does not exceed fair value;
\* secondaryDiscount is 0 unless secondaryOptics is 'negative';
\* catalystDiscount is 0 unless hasBinaryCatalyst is set and monthsToCatalyst
\* is a positive number; dualClassDiscount is 0 unless dualClass is set;
\* customerConcentrationDiscount is 0 unless customerConcentrationTop5
\* exceeds 0.40.
C19_TermsAreZeroUnlessTriggered ==
    Priced_p001 =>
        \A i \in C16_Rows : C19_TermsOfRowAreZeroUnlessTriggered(result.pricingMatrix[i])

\* no benchmark, while every other trigger is present: an order book that
\* covers the row other than once, a price above fair value, a secondary sale
\* with negative optics and a catalyst four months away
C19_Witness ==
    /\ Priced_p001
    /\ C19_NoBenchmark
    /\ Len(input.orderBook) > 0
    /\ input.secondaryOptics = "negative"
    /\ C19_CatalystTriggered
    /\ \E i \in C16_Rows :
          /\ Gt(result.pricingMatrix[i].offerPrice, input.fairValuePerShare)
          /\ Gt(result.pricingMatrix[i].sharesSoldSecondary, Zero)
          /\ Gt(result.pricingMatrix[i].effectiveOversubscription, One)

\* a benchmark and the months to a catalyst, but no catalyst flag
C19_WitnessMonthsWithoutFlag ==
    /\ Priced_p001
    /\ ~C19_NoBenchmark
    /\ ~input.hasBinaryCatalyst
    /\ Gt(input.monthsToCatalyst, Zero)
    /\ \E i \in C16_Rows : result.pricingMatrix[i].baseImpliedPop # Zero

\* with a benchmark, every term is there when its trigger is
C19_WitnessEveryTermTriggered ==
    /\ Priced_p001
    /\ \E i \in C16_Rows :
          /\ result.pricingMatrix[i].baseImpliedPop # Zero
          /\ ~C19_LogIsZero(result.pricingMatrix[i].bookQualityAdjustment)
          /\ result.pricingMatrix[i].valuationPenalty # Zero
          /\ result.pricingMatrix[i].secondaryDiscount # Zero
          /\ result.pricingMatrix[i].catalystDiscount # Zero

\* the terms that do not depend on the benchmark
C19_WitnessGovernanceAndConcentration ==
    /\ Priced_p001
    /\ C19_NoBenchmark
    /\ \E i \in C16_Rows :
          /\ result.pricingMatrix[i].dualClassDiscount # Zero
          /\ result.pricingMatrix[i].customerConcentrationDiscount # Zero

C20_CashFlowTypes == {"mature", "industrial", "high-growth"}

C20_NoPositiveSpread ==
    /\ Called_p000
    /\ input.companyType \in C20_CashFlowTypes
    /\ Le(input.wacc, input.terminalGrowthRate)

\* C20: in part_000, for the company types 'mature', 'industrial' and
\* 'high-growth', calculateIPOPricing fails and produces no valuation when
\* wacc <= terminalGrowthRate: no enterprise value is returned that comes from
\* dividing the terminal cash flow by a zero or negative wacc - terminalGrowthRate.
C20_FailsWithoutPositiveSpread ==
    C20_NoPositiveSpread => result.threw

\* what the engine returns instead for a 'mature' company: with
\* wacc = terminalGrowthRate an enterprise value that is not a finite number,
\* with wacc < terminalGrowthRate a finite one from the negative spread
C20_MatureWithoutPositiveSpread ==
    (C20_NoPositiveSpread /\ input.companyType = "mature") =>
        /\ ~result.threw
        /\ IsFinite(result.enterpriseValue) = Lt(input.wacc, input.terminalGrowthRate)

\* with wacc > terminalGrowthRate the enterprise value is a finite number
C20_PositiveSpreadIsFinite ==
    (Analysed_p000 /\ input.companyType \in C20_CashFlowTypes
        /\ Gt(input.wacc, input.terminalGrowthRate)) =>
        IsFinite(result.enterpriseValue)

-----------------------------------------------------------------------------
(* The price grid, dilution, drop-off, validation, cash and purity *)

C21_Tiers == 1..Len(input.orderBook)

C21_Covers(i) ==
    /\ \E r \in C16_Rows :
          Le(result.pricingMatrix[r].offerPrice, input.orderBook[i].priceLevel)
    /\ \E r \in C16_Rows :
          Ge(result.pricingMatrix[r].offerPrice, input.orderBook[i].priceLevel)

\* C21: in part_001, the price grid of a result that is not the error result
\* covers every tier of the order book: the smallest offerPrice of the matrix
\* is at or below the tier's priceLevel and the largest is at or above it,
\* also for tiers outside the filed range.
C21_GridCoversTheBook ==
    Priced_p001 => \A i \in C21_Tiers : C21_Covers(i)

\* what the engine builds: every price of the grid lies in the filed range,
\* whatever the order book holds
C21_GridIsTheFiledRange ==
    Priced_p001 =>
        \A r \in C16_Rows :
            /\ Ge(result.pricingMatrix[r].offerPrice, input.indicatedPriceRangeLow)
            /\ Le(result.pricingMatrix[r].offerPrice, input.indicatedPriceRangeHigh)

\* the same input with another amount of secondary shares
C22_OtherSecondary_p001 ==
    [input EXCEPT !.secondarySharesOffered = IF Truthy(@) THEN Undefined ELSE I(5),
                  !.secondaryDollarRaiseM = IF Truthy(@) THEN Undefined ELSE I(50)]

C22_OtherSecondary_p000 ==
    [input EXCEPT !.secondarySaleShares = IF @ = Zero THEN I(10) ELSE Zero]

C22_SameDilution_p001(other) ==
    /\ Len(other.pricingMatrix) = Len(result.pricingMatrix)
    /\ \A i \in C16_Rows :
          /\ other.pricingMatrix[i].fdSharesPostIPO = result.pricingMatrix[i].fdSharesPostIPO
          /\ other.pricingMatrix[i].dilutionPercent = result.pricingMatrix[i].dilutionPercent

C22_SameDilution_p000(other) ==
    /\ ~other.threw
    /\ Add(other.primarySharesIssued, other.greenshoeShares)
          = Add(result.primarySharesIssued, result.greenshoeShares)
    /\ other.postIPOSharesTotal = result.postIPOSharesTotal
    /\ other.dilutionPercent = result.dilutionPercent
    /\ \A i \in 1..Len(result.pricingMatrix) :
          other.pricingMatrix[i].dilution = result.pricingMatrix[i].dilution

C22_NotDilutive_p001 ==
    Priced_p001 => C22_SameDilution_p001(calculateIPOPricing_p001(C22_OtherSecondary_p001))

C22_NotDilutive_p000 ==
    Analysed_p000 =>
        C22_SameDilution_p000(calculateIPOPricing_p000(C22_OtherSecondary_p000, year))

\* C22: secondary shares are never dilutive: for two inputs that differ only
\* in the amount of secondary shares sold, the dilutive share count, the
\* fully-diluted post-IPO share count and the dilution of each row are equal,
\* in the rows of part_001 and in the top-level figures and the Low/Mid/High
\* scenarios of part_000.
C22_SecondaryIsNotDilutive ==
    C22_NotDilutive_p001 /\ C22_NotDilutive_p000

\* part_001 keeps secondary shares out of the dilutive count in every row
C22_SecondaryIsNotDilutiveInRows ==
    Priced_p001 =>
        /\ C22_SameDilution_p001(calculateIPOPricing_p001(C22_OtherSecondary_p001))
        /\ \A i \in C16_Rows :
              result.pricingMatrix[i].fdSharesPostIPO =
                  Add(input.sharesOutstandingPreIPO,
                      Add(result.pricingMatrix[i].sharesSoldPrimary,
                          result.pricingMatrix[i].sharesSoldGreenshoe))

\* in part_000 the difference is the greenshoe on the secondary shares
C22_GreenshoeCarriesSecondary ==
    Analysed_p000 =>
        result.postIPOSharesTotal =
            Add(Add(input.preIPOShares.total, result.primarySharesIssued),
                Mul(Add(result.primarySharesIssued, result.secondarySharesSold),
                    input.greenshoePercent))

C23_Names(orders) == [i \in 1..Len(orders) |-> orders[i].investorName]

\* the investors that have a maxPrice below the price of the row
C23_BelowThePrice(r) ==
    SelectSeq(input.notableOrders,
              LAMBDA o : ~IsUndefined(o.maxPrice) /\ Lt(o.maxPrice, r.offerPrice))

\* the same, a maxPrice of 0 counting as none
C23_BelowThePriceAndNotZero(r) ==
    SelectSeq(input.notableOrders,
              LAMBDA o : Truthy(o.maxPrice) /\ Lt(o.maxPrice, r.offerPrice))

C23_SumOfSizes(orders) ==
    SumSeq([i \in 1..Len(orders) |-> orders[i].indicatedSizeM])

C23_Reduced(r) ==
    Mul(r.oversubscription,
        Sub(One, Div(r.demandLostM, Mul(r.grossProceedsM, r.oversubscription))))

C23_RowAsStated(r) ==
    /\ r.investorsDropping = C23_Names(C23_BelowThePrice(r))
    /\ r.demandLostM = C23_SumOfSizes(C23_BelowThePrice(r))
    /\ r.effectiveOversubscription =
          IF r.demandLostM = Zero THEN r.oversubscription ELSE C23_Reduced(r)

\* C23 as stated: in every row of part_001 an investor of notableOrders drops
\* exactly when it has a maxPrice below the offerPrice, demandLostM is the sum
\* of the indicatedSizeM of the dropping investors, and
\* effectiveOversubscription = oversubscription x (1 - demandLostM /
\* (grossProceedsM x oversubscription)), with no floor or clamp.
C23_AsStated ==
    Priced_p001 => \A i \in C16_Rows : C23_RowAsStated(result.pricingMatrix[i])

C23_Row(r) ==
    /\ r.investorsDropping = C23_Names(C23_BelowThePriceAndNotZero(r))
    /\ r.demandLostM = C23_SumOfSizes(C23_BelowThePriceAndNotZero(r))
    /\ r.effectiveOversubscription =
          IF Gt(r.demandLostM, Zero) /\ Gt(r.grossProceedsM, Zero)
          THEN C23_Reduced(r)
          ELSE r.oversubscription

\* C23, amended: an investor drops exactly when its maxPrice is present, not 0
\* and below the offerPrice; demandLostM is the sum of the indicatedSizeM of
\* the dropping investors; effectiveOversubscription is the reduced
\* oversubscription, with no floor or clamp, when demandLostM > 0 and
\* grossProceedsM > 0, and the oversubscription itself otherwise.
C23_DropOff ==
    Priced_p001 => \A i \in C16_Rows : C23_Row(result.pricingMatrix[i])

\* a row whose lost demand exceeds its covered proceeds: the effective
\* oversubscription is negative
C23_Witness ==
    /\ Priced_p001
    /\ \E i \in C16_Rows :
          /\ Len(result.pricingMatrix[i].investorsDropping) > 0
          /\ Gt(result.pricingMatrix[i].demandLostM,
                Mul(result.pricingMatrix[i].grossProceedsM,
                    result.pricingMatrix[i].oversubscription))
          /\ Gt(result.pricingMatrix[i].oversubscription, Zero)
          /\ Lt(result.pricingMatrix[i].effectiveOversubscription, Zero)

\* an investor with a maxPrice of 0 stays in the book
C23_WitnessMaxPriceZero ==
    /\ Priced_p001
    /\ \E k \in 1..Len(input.notableOrders) : input.notableOrders[k].maxPrice = Zero
    /\ \E i \in C16_Rows :
          /\ Len(result.pricingMatrix[i].investorsDropping) > 0
          /\ Len(result.pricingMatrix[i].investorsDropping) < Len(input.notableOrders)

\* investors drop from an offering that raises nothing
C23_WitnessNoProceeds ==
    /\ Priced_p001
    /\ \E i \in C16_Rows :
          /\ Gt(result.pricingMatrix[i].demandLostM, Zero)
          /\ result.pricingMatrix[i].grossProceedsM = Zero
          /\ result.pricingMatrix[i].effectiveOversubscription
                = result.pricingMatrix[i].oversubscription

C24_NoShareCount_p001 ==
    Returned_p001 /\ ~Gt(input.sharesOutstandingPreIPO, Zero)

C24_NoShareCount_p000 ==
    Called_p000 /\ ~Gt(input.preIPOShares.total, Zero)

\* C24: an analysis whose pre-IPO share count is missing, zero or negative is
\* rejected before any figure is computed from it: calculateIPOPricing returns
\* no computed rows, ownership or fair value per share for such an input, in
\* part_001 (sharesOutstandingPreIPO) and in part_000 (preIPOShares.total).
C24_RejectsMissingShareCount ==
    /\ C24_NoShareCount_p001 =>
          /\ result.pricingMatrix = <<>>
          /\ \E w \in 1..Len(result.warnings) : result.warnings[w] \in ErrorWarnings_p001
    /\ C24_NoShareCount_p000 => result.threw

\* the same for part_000 alone
C24_RejectsMissingShareCount_p000 ==
    C24_NoShareCount_p000 => result.threw

\* what part_000 returns for a share count of 0: a fair value per share that
\* is not a finite number
C24_ZeroShareCountIsDividedBy ==
    (C24_NoShareCount_p000 /\ input.preIPOShares.total = Zero) =>
        /\ ~result.threw
        /\ ~IsFinite(result.fairValuePerShare)

\* what part_001 returns for a share count of 0: rows whose fully diluted
\* share count is the newly issued shares alone
C24_ZeroShareCountIsPriced ==
    (C24_NoShareCount_p001 /\ input.sharesOutstandingPreIPO = Zero /\ Priced_p001) =>
        \A i \in C16_Rows :
            result.pricingMatrix[i].fdSharesPostIPO =
                Add(result.pricingMatrix[i].sharesSoldPrimary,
                    result.pricingMatrix[i].sharesSoldGreenshoe)

C25_Repayment == Default(input.debtRepaymentAmount, Zero)

C25_NetOfFee(x) == Mul(x, Q(93, 100))

\* current cash plus the net primary and greenshoe proceeds, less the repayment
C25_CashAfterOffering ==
    Sub(Add(Add(input.currentCash,
                C25_NetOfFee(Mul(result.primarySharesIssued, result.priceRange.mid))),
            C25_NetOfFee(Mul(result.greenshoeShares, result.priceRange.mid))),
        C25_Repayment)

\* the newly issued shares of a scenario, primary and greenshoe
C25_NewShares(row) ==
    Sub(Div(row.marketCap, row.offerPrice), input.preIPOShares.total)

\* the enterprise value of a scenario when cash and debt fall by the same amount
C25_ScenarioValue(row) ==
    Sub(Add(row.marketCap, input.currentDebt),
        Add(input.currentCash, C25_NetOfFee(Mul(C25_NewShares(row), row.offerPrice))))

C25_Priced ==
    /\ Analysed_p000
    /\ Ge(C25_Repayment, Zero)
    /\ IsFinite(result.priceRange.mid) /\ Gt(result.priceRange.low, Zero)

\* C25: in part_000, post-IPO cash is current cash plus the net (after the 7%
\* fee) primary and greenshoe proceeds; a debt repayment R >= 0 lowers post-IPO
\* cash and post-IPO debt by the same amount (postIPODebt = currentDebt - R),
\* for every R including R greater than currentDebt, in the top-level figures
\* and in every Low/Mid/High scenario; secondary proceeds never enter the cash.
C25_CashAndDebtAfterRepayment ==
    C25_Priced =>
        /\ result.postIPOCash = C25_CashAfterOffering
        /\ result.postIPODebt = Sub(input.currentDebt, C25_Repayment)
        /\ \A i \in 1..Len(result.pricingMatrix) :
              result.pricingMatrix[i].enterpriseValue =
                  C25_ScenarioValue(result.pricingMatrix[i])

\* what the engine computes: the cash falls by the whole repayment and holds
\* no secondary proceeds, the debt stops at 0
C25_CashFallsDebtStopsAtZero ==
    C25_Priced =>
        /\ result.postIPOCash = C25_CashAfterOffering
        /\ result.postIPODebt = MathMax(Zero, Sub(input.currentDebt, C25_Repayment))
        /\ \A i \in 1..Len(result.pricingMatrix) :
              result.pricingMatrix[i].enterpriseValue =
                  Add(C25_ScenarioValue(result.pricingMatrix[i]),
                      Sub(result.postIPODebt, Sub(input.currentDebt, C25_Repayment)))

\* a repayment within the debt lowers cash and debt alike
C25_RepaymentWithinTheDebt ==
    (C25_Priced /\ Le(C25_Repayment, input.currentDebt)) =>
        /\ result.postIPODebt = Sub(input.currentDebt, C25_Repayment)
        /\ \A i \in 1..Len(result.pricingMatrix) :
              result.pricingMatrix[i].enterpriseValue =
                  C25_ScenarioValue(result.pricingMatrix[i])

C26_ReturnsItsInput ==
    Returned_p001 => result.assumptions = input

C26_WitnessComparables ==
    /\ Analysed_p000
    /\ prevResult # NoResult
    /\ Len(input.comparables) > 1
    /\ \E i \in 1..(Len(input.comparables) - 1) :
          Gt(input.comparables[i].evRevenue, input.comparables[i + 1].evRevenue)

C27_Rows == 1..Len(result.pricingMatrix)

C27_Midpoint == Div(Add(input.indicatedPriceRangeLow, input.indicatedPriceRangeHigh), I(2))

\* the book at the top of the filed range is weak: no row at
\* indicatedPriceRangeHigh, or one that is covered less than 5 times
C27_WeakBookAtTop ==
    \A i \in C27_Rows :
        StrictEq(result.pricingMatrix[i].offerPrice, input.indicatedPriceRangeHigh) =>
            Lt(OrElse(result.pricingMatrix[i].oversubscription, Zero), I(5))

C27_RunwayWithWeakBook ==
    /\ Called_svc
    /\ ~result.threw
    /\ input.managementPriority = "runway_extension"
    /\ Gt(input.indicatedPriceRangeLow, Zero)
    /\ Gt(input.indicatedPriceRangeHigh, input.indicatedPriceRangeLow)
    /\ C27_WeakBookAtTop

C27_RaisedByMinimum ==
    Truthy(input.minAcceptablePrice) /\ result.recommendedPrice = input.minAcceptablePrice

\* C27: in ipoPricingService.ts, when managementPriority is 'runway_extension'
\* and the book at the top of the filed range is weak, the recommended price is
\* never above the midpoint of the filed range unless minAcceptablePrice raises
\* it, and never below minAcceptablePrice when one is given, for every order
\* book and every minAcceptablePrice, on or off the price grid.
C27_CappedAndFloored ==
    C27_RunwayWithWeakBook =>
        /\ Le(result.recommendedPrice, C27_Midpoint) \/ C27_RaisedByMinimum
        /\ Truthy(input.minAcceptablePrice) =>
              Ge(result.recommendedPrice, input.minAcceptablePrice)

\* the two halves apart
C27_NotAboveMidpoint ==
    C27_RunwayWithWeakBook =>
        Le(result.recommendedPrice, C27_Midpoint) \/ C27_RaisedByMinimum

C27_NotBelowMinimum ==
    (C27_RunwayWithWeakBook /\ Truthy(input.minAcceptablePrice)) =>
        Ge(result.recommendedPrice, input.minAcceptablePrice)

\* with a minAcceptablePrice that is absent or the price of a row
C27_MinimumOnTheGrid ==
    \/ ~Truthy(input.minAcceptablePrice)
    \/ \E i \in C27_Rows :
          StrictEq(result.pricingMatrix[i].offerPrice, input.minAcceptablePrice)

C27_HoldsForMinimumOnTheGrid ==
    (C27_RunwayWithWeakBook /\ C27_MinimumOnTheGrid) =>
        /\ Le(result.recommendedPrice, C27_Midpoint) \/ C27_RaisedByMinimum
        /\ Truthy(input.minAcceptablePrice) =>
              Ge(result.recommendedPrice, input.minAcceptablePrice)

C28_Tiers == 1..Len(input.orderBook)

\* the tiers at or below the price of the row
C28_AtOrBelow(r) == {k \in C28_Tiers : Le(input.orderBook[k].priceLevel, r.offerPrice)}

\* the highest of them
C28_Highest(r) ==
    {k \in C28_AtOrBelow(r) :
        \A j \in C28_AtOrBelow(r) :
            Ge(input.orderBook[k].priceLevel, input.orderBook[j].priceLevel)}

C28_BelowTheFloor(r) == Len(r.orderBookTier) > 0 /\ r.orderBookTier[1] = "<$"

C28_RowReadsItsTier(r) ==
    /\ C28_AtOrBelow(r) # {} =>
          \E k \in C28_Highest(r) :
              /\ r.oversubscription = input.orderBook[k].oversubscription
              /\ r.orderBookTier = <<"$", input.orderBook[k].priceLevel, "+">>
    /\ C28_BelowTheFloor(r) => C28_AtOrBelow(r) = {}

\* C28: in ipoPricingService.ts, every row whose offerPrice is at or above the
\* priceLevel of at least one tier carries the oversubscription of the highest
\* such tier and the orderBookTier '$<that level>+', whatever oversubscription
\* the tier carries, 1 included; the below-the-floor rule is applied only to
\* rows whose price is below every tier.
C28_RowsReadTheirTier ==
    (Called_svc /\ ~result.threw) =>
        \A i \in C27_Rows : C28_RowReadsItsTier(result.pricingMatrix[i])

\* the same for the tiers that do not carry an oversubscription of exactly 1
C28_TiersOtherThanOne ==
    (Called_svc /\ ~result.threw) =>
        \A i \in C27_Rows :
            (\A k \in C28_Highest(result.pricingMatrix[i]) :
                input.orderBook[k].oversubscription # One) =>
                C28_RowReadsItsTier(result.pricingMatrix[i])

\* the sum of the terms stored in a row, the logarithm apart
C29_SumOfTerms(r) ==
    Sub(Sub(Sub(Sub(Sub(Add(r.baseImpliedPop, r.valuationPenalty),
                        r.secondaryDiscount),
                    r.catalystDiscount),
                r.downRoundDiscount),
            r.dualClassDiscount),
        r.customerConcentrationDiscount)

C29_RowIsConsistent(r) ==
    /\ r.adjustedImpliedPop.rational = C29_SumOfTerms(r)
    /\ r.adjustedImpliedPop.lnOf = r.bookQualityAdjustment.lnOf

\* C29: in part_001 every row is internally consistent: adjustedImpliedPop =
\* baseImpliedPop + bookQualityAdjustment + valuationPenalty - secondaryDiscount
\* - catalystDiscount - downRoundDiscount - dualClassDiscount
\* - customerConcentrationDiscount, on the values stored in the same row, also
\* for inputs that supply no sector benchmark but do supply down-round,
\* dual-class or customer-concentration data.
C29_RowsAreConsistent ==
    Priced_p001 => \A i \in C16_Rows : C29_RowIsConsistent(result.pricingMatrix[i])

\* with a sector benchmark the rows are consistent
C29_ConsistentWithBenchmark ==
    (Priced_p001 /\ ~C19_NoBenchmark) =>
        \A i \in C16_Rows : C29_RowIsConsistent(result.pricingMatrix[i])

\* without one, adjustedImpliedPop is 0 whatever the row stores as discounts
C29_ZeroWithoutBenchmark ==
    (Priced_p001 /\ C19_NoBenchmark) =>
        \A i \in C16_Rows :
            /\ result.pricingMatrix[i].adjustedImpliedPop.rational = Zero
            /\ C19_LogIsZero(result.pricingMatrix[i].adjustedImpliedPop)

\* C30: in part_001 every result that is not the error result has
\* recommendedRangeLow <= recommendedPrice <= recommendedRangeHigh, the
\* recommended range being the filed range, for every policy and every
\* minAcceptablePrice.
C30_PriceWithinRecommendedRange ==
    Priced_p001 =>
        /\ result.recommendedRangeLow = input.indicatedPriceRangeLow
        /\ result.recommendedRangeHigh = input.indicatedPriceRangeHigh
        /\ Le(result.recommendedRangeLow, result.recommendedPrice)
        /\ Le(result.recommendedPrice, result.recommendedRangeHigh)

\* the recommended range is the filed range, and the price lies in it unless
\* a minAcceptablePrice above the range has replaced it
C30_WithinUnlessMinimumAbove ==
    Priced_p001 =>
        /\ result.recommendedRangeLow = input.indicatedPriceRangeLow
        /\ result.recommendedRangeHigh = input.indicatedPriceRangeHigh
        /\ Le(result.recommendedRangeLow, result.recommendedPrice)
        /\ \/ Le(result.recommendedPrice, result.recommendedRangeHigh)
           \/ /\ Gt(input.minAcceptablePrice, input.indicatedPriceRangeHigh)
              /\ result.recommendedPrice = input.minAcceptablePrice
=============================================================================
